---- MODULE Spec2Model ----
(***************************************************************************)
(* PMWiki RAG backend: the orchestrator (RAGService), the vector-index     *)
(* client (QdrantService.search), the generation client (GroqService) and  *)
(* the citation formatters.                                                *)
(*                                                                         *)
(* Similarity scores are percentages: 0.45 is 45, 0.4 is 40.               *)
(* An embedding vector is represented by the similarity profile it has     *)
(* against the points of the collection (IndexScore).                      *)
(***************************************************************************)
EXTENDS Integers, Sequences, FiniteSets, TLC

VARIABLES
    db,               \* document_sections: the ids of its rows, in table order
    pc,               \* position of the request in its pipeline
    op,               \* "none" | "query" | "compare" | "process"
    params,           \* the arguments of the running call
    query_embedding,  \* the vector returned by embed_query
    search_queries,   \* generate_process: the queries still to run
    embedder,         \* generate_process: the vector the provider has for each query
    all_results,      \* per standard: hits of search_by_standard
    primary_chunks,   \* query_with_citations: primary_chunks
    additional_chunks,\* query_with_citations: additional_chunks
    chunk_data,       \* compare_standards: chunk_data
    all_chunks,       \* generate_process: all_chunks
    top_chunks,       \* generate_process: top_chunks
    retries,          \* embed_texts: retries of the current batch
    attempts,         \* provider round trips of the current completion
    calls,            \* external calls issued by the running request
    result,           \* the dictionary returned to the caller
    error,            \* the exception that ended the request
    citeIn,           \* citation formatters: the section being formatted
    citeOut,          \* citation formatters: what each formatter returned
    prompt,           \* the user prompt of the running generation call
    load,             \* load_data.py: the locals of load_standard_data
    raised,           \* the exception that ended the request: type and cause
    voyage,           \* embed_texts: the locals of the running call
    singletons        \* the module-level service singletons of the process

vars == <<db, pc, op, params, query_embedding, search_queries, embedder,
          all_results,
          primary_chunks, additional_chunks, chunk_data, all_chunks,
          top_chunks, retries, attempts, calls, result, error, citeIn, citeOut,
          prompt, load, raised, voyage, singletons>>

(***************************************************************************)
(* Bounds of the model.                                                    *)
(***************************************************************************)
NSections == 17
MaxK == 2
MaxFocus == 1
MaxPriorities == 3
MaxPage == 2
MaxRateLimits == 3
MaxCompareK == 3
MaxFileChunks == 2
MaxLoadRuns == 2
MaxTexts == 3
MaxBatchSize == 3
MaxRetriesArg == 4

(***************************************************************************)
(* Program constants.                                                      *)
(***************************************************************************)
ProcessThreshold == 45
TopProcessChunks == 15
ProcessTopK == 5
PreviewChars == 200
ComparisonChunks == 2
AdditionalChars == 300
ProcessChunks == 5
ProcessChars == 400
EmbedMaxRetries == 3
GroqMaxRetries == 2
DelayBetweenBatches == 20

None == 0 - 1

Standards == <<"PMBOK", "PRINCE2", "ISO_21502">>
StandardSet == {Standards[i] : i \in 1..Len(Standards)}
Sections == 1..NSections

\* Sequence helpers
Range(s) == {s[i] : i \in 1..Len(s)}
Take(s, n) == SubSeq(s, 1, IF n < Len(s) THEN n ELSE Len(s))

RECURSIVE Concat(_)
Concat(ss) == IF ss = <<>> THEN <<>> ELSE Head(ss) \o Concat(Tail(ss))

(***************************************************************************)
(* The relational store: document_sections.                                *)
(***************************************************************************)
StandardOf(id) == Standards[((id - 1) % 3) + 1]

\* document_sections.page_start is a nullable column: the rows listed here
\* were stored without a page.
NullPageIds == {17}

PageStartOf(id) == IF id \in NullPageIds THEN None ELSE 10 * id

PageEndOf(id) ==
    CASE id \in NullPageIds -> None
      [] id % 3 = 0 -> None
      [] id % 3 = 1 -> PageStartOf(id)
      [] OTHER      -> PageStartOf(id) + 3

\* document_sections.content, as its length in characters
ContentOf(id) == 200 + 50 * id

Row(id) ==
    [id             |-> id,
     content        |-> ContentOf(id),
     standard       |-> StandardOf(id),
     section_number |-> ToString(id) \o ".1",
     section_title  |-> "Title " \o ToString(id),
     page_start     |-> PageStartOf(id),
     page_end       |-> PageEndOf(id)]

(***************************************************************************)
(* The vector collection.  A query vector is known by the scores it gets   *)
(* against the stored points:                                              *)
(*   "corpus" vectors score the first two sections of every standard by    *)
(*            one of the PatternScores rows, and every other point 0;      *)
(*   "window" vectors score the sections from `start` on by `top`,         *)
(*            `top` - 5, `top` - 10, ...;                                  *)
(*   "none"   vectors score every point 0.                                 *)
(* Points are upserted from document_sections rows (generate_embeddings),  *)
(* so a point's payload standard is the standard of the section.           *)
(***************************************************************************)
PatternScores == << <<35, 35>>, <<40, 55>>, <<70, 55>>, <<55, 55>> >>
Patterns == 1..Len(PatternScores)

CorpusVectors ==
    {[kind |-> "corpus", pat |-> p] : p \in [1..Len(Standards) -> Patterns]}

NoVector == [kind |-> "none"]

IndexScore(v, id) ==
    CASE v.kind = "corpus" ->
            IF id <= 2 * Len(Standards)
            THEN PatternScores[v.pat[((id - 1) % 3) + 1]][((id - 1) \div 3) + 1]
            ELSE 0
      [] v.kind = "window" ->
            IF id >= v.start /\ v.top - 5 * (id - v.start) > 0
            THEN v.top - 5 * (id - v.start)
            ELSE 0
      [] OTHER -> 0

\* Variant: a search whose cut is ten points below the threshold asked for
PassesLower(score, score_threshold, inclusive) == score > score_threshold - 10

\* score_threshold of the collection's search: a point scoring below the
\* threshold is never returned; one scoring exactly the threshold is returned
\* or not (`inclusive`), depending on the engine.
PassesThreshold(score, score_threshold, inclusive) ==
    \/ score > score_threshold
    \/ inclusive /\ score = score_threshold

\* filter_conditions = {"standard": standard}; NoFilter for filter_conditions=None
NoFilter == "*"
MatchesFilter(id, filter) == filter = NoFilter \/ StandardOf(id) = filter

Hit(v, id) == [id |-> id, score |-> IndexScore(v, id)]

\* The `limit` best of `cands`, best first; points of equal score in any order.
RECURSIVE TopHits(_, _, _)
TopHits(v, cands, limit) ==
    IF limit = 0 \/ cands = {}
    THEN {<<>>}
    ELSE LET best == {c \in cands :
                        \A d \in cands : IndexScore(v, d) <= IndexScore(v, c)}
         IN  UNION {{<<Hit(v, c)>> \o rest :
                        rest \in TopHits(v, cands \ {c}, limit - 1)} : c \in best}

\* QdrantService.search: every list of hits client.search may return.
Search(query_vector, limit, score_threshold, filter) ==
    UNION {TopHits(query_vector,
                   {id \in Sections :
                       /\ MatchesFilter(id, filter)
                       /\ PassesThreshold(IndexScore(query_vector, id),
                                          score_threshold, inclusive)},
                   limit) : inclusive \in BOOLEAN}

\* Variant: the search of a standard without the standard filter
SearchAnyStandard(query_vector, standard, limit, score_threshold) ==
    Search(query_vector, limit, score_threshold, NoFilter)

\* QdrantService.search_by_standard
SearchByStandard(query_vector, standard, limit, score_threshold) ==
    Search(query_vector, limit, score_threshold, standard)

(***************************************************************************)
(* Metadata enrichment.                                                    *)
(***************************************************************************)
\* chunk_ids = [str(result['id']) for result in results]
ChunkIds(results) == [i \in 1..Len(results) |-> results[i].id]

\* Variant: the keys of `scores` never match the id of a row
ScoresMiss(results, id) == 0

\* scores = {str(result['id']): result['score'] ...}; scores.get(id, 0.0)
ScoresGet(results, id) ==
    IF \E i \in 1..Len(results) : results[i].id = id
    THEN LET last == CHOOSE i \in 1..Len(results) :
                        /\ results[i].id = id
                        /\ \A j \in (i + 1)..Len(results) : results[j].id # id
         IN  results[last].score
    ELSE 0

WithScore(row, score) == [score |-> score] @@ row

\* Variant: the SELECT of _fetch_chunk_metadata without its ORDER BY
RECURSIVE SelectTableOrder(_, _)
SelectTableOrder(ids, store) ==
    IF store = <<>> THEN <<>>
    ELSE (IF Head(store) \in Range(ids) THEN <<Row(Head(store))>> ELSE <<>>)
         \o SelectTableOrder(ids, Tail(store))

\* Variant: a lookup that returns nothing when one of the ids has no row
SelectAllOrNothing(ids, store) ==
    IF Range(ids) \subseteq Range(store)
    THEN [i \in 1..Len(ids) |-> Row(ids[i])]
    ELSE <<>>

\* SELECT ... WHERE id = ANY(:ids) ORDER BY array_position(:ids, id)
RECURSIVE SelectOrdered(_, _)
SelectOrdered(ids, store) ==
    IF ids = <<>> THEN <<>>
    ELSE (IF Head(ids) \in Range(store) THEN <<Row(Head(ids))>> ELSE <<>>)
         \o SelectOrdered(Tail(ids), store)

\* SELECT ... WHERE id = ANY(:ids) with no ORDER BY: rows in table order
RECURSIVE SelectUnordered(_, _)
SelectUnordered(ids, store) ==
    IF store = <<>> THEN <<>>
    ELSE (IF Head(store) \in Range(ids) THEN <<Row(Head(store))>> ELSE <<>>)
         \o SelectUnordered(ids, Tail(store))

\* One standard's part of _fetch_chunk_metadata
EnrichStandard(results, store) ==
    IF results = <<>>
    THEN <<>>
    ELSE LET rows == SelectOrdered(ChunkIds(results), store)
         IN  [i \in 1..Len(rows) |->
                 WithScore(rows[i], ScoresGet(results, rows[i].id))]

\* RAGService._fetch_chunk_metadata.  search_results and enriched_data are
\* dictionaries filled in the order of `standards`: entry i belongs to
\* Standards[i].
FetchChunkMetadata(search_results, store) ==
    [i \in 1..Len(search_results) |-> EnrichStandard(search_results[i], store)]

\* Variant: a SELECT is issued for a standard without hits as well
FetchQueriesAll(search_results) == Len(search_results)

\* The number of SELECTs _fetch_chunk_metadata issues
FetchQueries(search_results) ==
    Cardinality({i \in 1..Len(search_results) : search_results[i] # <<>>})

(***************************************************************************)
(* Citation formatting.  A formatter returns the citation, or the name of  *)
(* the exception it raises.                                                *)
(***************************************************************************)
KeyError == "KeyError"
AttributeError == "AttributeError"
Exceptions == {KeyError, AttributeError}

\* Python truth value of an Optional[int]
Truthy(p) == p # None /\ p # 0

\* str() of an Optional[int] inside an f-string
Str(p) == IF p = None THEN "None" ELSE ToString(p)

\* dict.get(key) on a chunk
DictGet(chunk, key) == IF key \in DOMAIN chunk THEN chunk[key] ELSE None

\* year_map.get(standard, '2021') of RAGService._format_citation
YearMapGet(standard) ==
    CASE standard = "PMBOK"     -> "2021"
      [] standard = "PRINCE2"   -> "2017"
      [] standard = "ISO_21502" -> "2020"
      [] OTHER                  -> "2021"

\* RAGService._format_citation, "Format page reference"
PageRef(page_start, page_end) ==
    IF Truthy(page_end) /\ page_end # page_start
    THEN "pp. " \o Str(page_start) \o "-" \o Str(page_end)
    ELSE "p. " \o Str(page_start)

\* Variant: the orchestrator cites in the long form of the model method
FormatCitationLong(chunk) ==
    chunk.standard \o " (" \o YearMapGet(chunk.standard) \o "). Section "
    \o chunk.section_number \o ": " \o chunk.section_title \o ". "
    \o PageRef(chunk.page_start, DictGet(chunk, "page_end")) \o "."

\* RAGService._format_citation
FormatCitation(chunk) ==
    IF ~({"standard", "section_number", "page_start"} \subseteq DOMAIN chunk)
    THEN KeyError
    ELSE chunk.standard \o " (" \o YearMapGet(chunk.standard) \o "), Section "
         \o chunk.section_number \o ", "
         \o PageRef(chunk.page_start, DictGet(chunk, "page_end"))

\* GroqService._format_chunk_citation: page_ref
ChunkPageRef(chunk) ==
    LET page_start == chunk.page_start
        page_end   == DictGet(chunk, "page_end")
    IN IF Truthy(page_end) /\ page_end # page_start
       THEN "pp. " \o Str(page_start) \o "-" \o Str(page_end)
       ELSE "p. " \o Str(page_start)

\* GroqService._format_chunk_citation
FormatChunkCitation(chunk) ==
    IF ~({"section_number", "section_title", "page_start"} \subseteq DOMAIN chunk)
    THEN KeyError
    ELSE "Section " \o chunk.section_number \o ": " \o chunk.section_title
         \o " (" \o ChunkPageRef(chunk) \o ")"

\* A DocumentSection object: every mapped attribute exists; `standard` is a
\* StandardType member (is_enum) or whatever value the constructor was given.
\* DocumentSection.get_publication_year (StandardType is a str enum, so a
\* plain string equal to a member's value finds the member's entry).
GetPublicationYear(section) ==
    CASE section.standard = "PMBOK"     -> "2021"
      [] section.standard = "PRINCE2"   -> "2017"
      [] section.standard = "ISO_21502" -> "2020"
      [] OTHER                          -> "2021"

\* self.standard.value
StandardValue(section) ==
    IF section.is_enum THEN section.standard ELSE AttributeError

\* DocumentSection.get_citation
SectionPageRef(section) ==
    IF Truthy(section.page_end) /\ section.page_end # section.page_start
    THEN "pp. " \o Str(section.page_start) \o "-" \o Str(section.page_end)
    ELSE "p. " \o Str(section.page_start)

\* DocumentSection.get_citation
GetCitation(section, format) ==
    IF StandardValue(section) \in Exceptions
    THEN StandardValue(section)
    ELSE CASE format = "APA" ->
                StandardValue(section) \o " (" \o GetPublicationYear(section)
                \o "). Section " \o section.section_number \o ": "
                \o section.section_title \o ". " \o SectionPageRef(section)
                \o "."
           [] format = "IEEE" ->
                StandardValue(section) \o ", \"" \o section.section_title
                \o ",\" sec. " \o section.section_number \o ", p. "
                \o Str(section.page_start) \o ", "
                \o GetPublicationYear(section) \o "."
           [] OTHER ->
                StandardValue(section) \o " Section " \o section.section_number
                \o ", Page " \o Str(section.page_start)

\* Chunk.get_publication_year (models/chunk.py; `standard` is a plain str)
ChunkPublicationYear(section) ==
    CASE section.standard = "PMBOK"     -> "2021"
      [] section.standard = "PRINCE2"   -> "2017"
      [] section.standard = "ISO_21502" -> "2020"
      [] OTHER                          -> "2021"

\* Chunk.get_citation: page_ref
ChunkModelPageRef(section) ==
    IF Truthy(section.page_end) /\ section.page_end # section.page_start
    THEN "pp. " \o Str(section.page_start) \o "-" \o Str(section.page_end)
    ELSE "p. " \o Str(section.page_start)

\* Chunk.get_citation; format is compared in lower case
ChunkGetCitation(section, format) ==
    IF format \in {"apa", "APA"}
    THEN section.standard \o " (" \o ChunkPublicationYear(section)
         \o "). Section " \o section.section_number \o ": "
         \o section.section_title \o ". " \o ChunkModelPageRef(section) \o "."
    ELSE section.standard \o " Section " \o section.section_number
         \o ", Page " \o Str(section.page_start)

(***************************************************************************)
(* RAGService: the in-process steps of the three operations.               *)
(***************************************************************************)
MarkPrimary(chunk, flag) == [is_primary |-> flag] @@ chunk

\* Variant: the primaries are the best three chunks whatever their standard
PrimaryChunksGlobal(data) ==
    LET all == Concat(data)
    IN  [i \in 1..(IF Len(all) < 3 THEN Len(all) ELSE 3) |->
            MarkPrimary(all[i], TRUE)]

\* query_with_citations, step 4: the first chunk of every standard
PrimaryChunks(data) ==
    Concat([i \in 1..Len(data) |->
              IF data[i] # <<>> THEN <<MarkPrimary(data[i][1], TRUE)>> ELSE <<>>])

\* Variant: every chunk of a standard is additional, its first one too
AdditionalChunksAll(data) ==
    Concat([i \in 1..Len(data) |->
              [j \in 1..Len(data[i]) |-> MarkPrimary(data[i][j], FALSE)]])

\* query_with_citations, step 4: the chunks after the first of every standard
AdditionalChunks(data) ==
    Concat([i \in 1..Len(data) |->
              IF data[i] # <<>>
              THEN [j \in 1..(Len(data[i]) - 1) |->
                      MarkPrimary(data[i][j + 1], FALSE)]
              ELSE <<>>])

\* query_with_citations, step 6: one entry of primary_sources / additional_context
SourceEntry(chunk) ==
    [id              |-> chunk.id,
     standard        |-> chunk.standard,
     section_number  |-> chunk.section_number,
     section_title   |-> chunk.section_title,
     page_start      |-> chunk.page_start,
     page_end        |-> chunk.page_end,
     content         |-> chunk.content,
     citation        |-> FormatCitation(chunk),
     relevance_score |-> chunk.score]

\* query_with_citations, step 6
QueryResult(primary, additional) ==
    [primary_sources    |-> [i \in 1..Len(primary) |-> SourceEntry(primary[i])],
     additional_context |-> [i \in 1..Len(additional) |-> SourceEntry(additional[i])],
     usage_stats        |->
        [chunks_retrieved         |-> Len(primary \o additional),
         primary_sources_count    |-> Len(primary),
         additional_sources_count |-> Len(additional)]]

\* content[:n] of a text of the given length, with the "..." that follows it
Prefix(content, n) ==
    IF content > n THEN [chars |-> n, ellipsis |-> TRUE]
    ELSE [chars |-> content, ellipsis |-> FALSE]

\* RAGService._format_source
FormatSource(chunk) ==
    [section_number  |-> chunk.section_number,
     section_title   |-> chunk.section_title,
     page_start      |-> chunk.page_start,
     page_end        |-> chunk.page_end,
     citation        |-> FormatCitation(chunk),
     relevance_score |-> chunk.score,
     content_preview |-> Prefix(chunk.content, PreviewChars)]

\* compare_standards, "Structure response"
CompareResult(data) ==
    [sources |-> [i \in 1..Len(data) |->
                    [j \in 1..Len(data[i]) |-> FormatSource(data[i][j])]]]

\* An Optional[List[str]] argument
NoList == [is_none |-> TRUE, items |-> <<>>]
SomeList(items) == [is_none |-> FALSE, items |-> items]
\* Python truth value of an Optional[List[str]]
ListTruthy(l) == ~l.is_none /\ l.items # <<>>

\* Variant: one query for every priority
BuildEveryPriority(project_type, priorities, focus_areas) ==
    LET core_queries == <<project_type \o " project lifecycle phases",
                          "project initiation and planning",
                          "project execution and monitoring",
                          "project closure and lessons learned">>
        focus == IF ListTruthy(focus_areas) THEN focus_areas.items ELSE <<>>
        top   == IF ListTruthy(priorities) THEN priorities.items ELSE <<>>
    IN  core_queries \o focus
        \o [i \in 1..Len(top) |-> top[i] \o " in project management"]

\* generate_process, "Build search queries"
BuildSearchQueries(project_type, priorities, focus_areas) ==
    LET core_queries == <<project_type \o " project lifecycle phases",
                          "project initiation and planning",
                          "project execution and monitoring",
                          "project closure and lessons learned">>
        focus == IF ListTruthy(focus_areas) THEN focus_areas.items ELSE <<>>
        top   == IF ListTruthy(priorities) THEN Take(priorities.items, 2) ELSE <<>>
    IN  core_queries \o focus
        \o [i \in 1..Len(top) |-> top[i] \o " in project management"]

\* generate_process, the rows of one query appended to all_chunks
CollectRows(results, store, query) ==
    IF results = <<>>
    THEN <<>>
    ELSE LET rows == SelectUnordered(ChunkIds(results), store)
         IN  [i \in 1..Len(rows) |->
                 [search_query |-> query]
                 @@ WithScore(rows[i], ScoresGet(results, rows[i].id))]

\* Variant: the first chunk seen for an id is kept, whatever its score
RECURSIVE SeenFirst(_, _)
SeenFirst(chunks, seen) ==
    IF chunks = <<>> THEN seen
    ELSE IF \E i \in 1..Len(seen) : seen[i].id = Head(chunks).id
         THEN SeenFirst(Tail(chunks), seen)
         ELSE SeenFirst(Tail(chunks), Append(seen, Head(chunks)))

\* seen_ids as the list of its values, in the order the keys were inserted
RECURSIVE SeenIds(_, _)
SeenIds(chunks, seen) ==
    IF chunks = <<>> THEN seen
    ELSE LET chunk == Head(chunks)
             at    == {i \in 1..Len(seen) : seen[i].id = chunk.id}
         IN  IF at = {}
             THEN SeenIds(Tail(chunks), Append(seen, chunk))
             ELSE LET i == CHOOSE k \in at : TRUE
                  IN  IF chunk.score > seen[i].score
                      THEN SeenIds(Tail(chunks), [seen EXCEPT ![i] = chunk])
                      ELSE SeenIds(Tail(chunks), seen)

\* generate_process, "Deduplicate chunks by ID (keep highest score)"
UniqueChunks(chunks) == SeenIds(chunks, <<>>)

\* Variant: the deduplicated chunks stay in the order they were found
SortNot(chunks) == chunks

\* list.sort(key=score, reverse=True): stable, equal scores keep their order
RECURSIVE SortByScore(_)
SortByScore(chunks) ==
    IF chunks = <<>> THEN <<>>
    ELSE LET sorted == SortByScore(SubSeq(chunks, 1, Len(chunks) - 1))
             last   == chunks[Len(chunks)]
             ahead  == Cardinality({i \in 1..Len(sorted) :
                                      sorted[i].score >= last.score})
         IN  SubSeq(sorted, 1, ahead) \o <<last>>
             \o SubSeq(sorted, ahead + 1, Len(sorted))

\* Variant: the ranked chunks are not cut
TopChunksUncut(chunks) == SortByScore(UniqueChunks(chunks))

\* generate_process, "Sort by score and limit to top 15 most relevant"
TopChunks(chunks) == Take(SortByScore(UniqueChunks(chunks)), TopProcessChunks)

\* generate_process, "Structure response"
ProcessResult(top) ==
    [source_sections_count |-> Len(top),
     standards_used        |-> {top[i].standard : i \in 1..Len(top)}]

(***************************************************************************)
(* The environment of a request.                                           *)
(***************************************************************************)
\* Ids whose row may be gone from document_sections while their point is
\* still in the collection.
StrayIds == {1}

IdsAscending == [i \in 1..NSections |-> i]
IdsDescending == [i \in 1..NSections |-> NSections + 1 - i]

Without(ids, gone) == LET Kept(id) == id \notin gone IN SelectSeq(ids, Kept)

DbStates ==
    {Without(order, gone) : order \in {IdsAscending, IdsDescending},
                            gone \in SUBSET StrayIds}

Thresholds == {40, 50}

\* The vectors the embedding provider has for the queries of one
\* generate_process call: query i gets VectorList[((r + d * i) % 5) + 1].
VectorList ==
    <<[kind |-> "window", start |-> 1, top |-> 67],
      [kind |-> "window", start |-> 5, top |-> 62],
      [kind |-> "window", start |-> 9, top |-> 72],
      [kind |-> "window", start |-> 13, top |-> 67],
      [kind |-> "none"]>>

Embeddings(n) ==
    {[i \in 1..n |-> VectorList[((r + d * i) % Len(VectorList)) + 1]] :
        r \in 0..(Len(VectorList) - 1), d \in {1, Len(VectorList) - 1}}

\* The vectors the embedding provider may return for the query of a search
\* or a comparison.
QueryVectors ==
    CorpusVectors \cup {VectorList[4], [kind |-> "window", start |-> 1, top |-> 72]}

FocusName(k) == "focus area " \o ToString(k)
PriorityName(k) == "priority " \o ToString(k)

FocusInputs ==
    {NoList} \cup {SomeList([k \in 1..n |-> FocusName(k)]) : n \in 0..MaxFocus}
PriorityInputs ==
    {NoList} \cup {SomeList([k \in 1..n |-> PriorityName(k)]) : n \in 0..MaxPriorities}

(***************************************************************************)
(* GroqService: the user prompts.  A prompt is the sequence of its         *)
(* headed parts; an entry is a chunk's citation line and the characters of *)
(* its content that follow it.                                             *)
(***************************************************************************)
Whole(content) == [chars |-> content, ellipsis |-> FALSE]

\* content[:n] followed by "..."
Cut(content, n) ==
    [chars |-> IF content > n THEN n ELSE content, ellipsis |-> TRUE]

PromptEntry(chunk, content) ==
    [citation |-> FormatChunkCitation(chunk), content |-> content]

LabelledEntry(chunk, content) ==
    [standard |-> chunk.standard] @@ PromptEntry(chunk, content)

Part(heading, entries) ==
    IF entries = <<>> THEN <<>>
    ELSE <<[heading |-> heading, entries |-> entries]>>

\* Variant: the primary chunks are cut like the additional ones
CitationUserPromptCut(context_chunks) ==
    LET primary == SelectSeq(context_chunks, LAMBDA c : c.is_primary)
        additional == SelectSeq(context_chunks, LAMBDA c : ~c.is_primary)
    IN  Part("PRIMARY CONTEXT (Highest Relevance)",
             [i \in 1..Len(primary) |->
                 LabelledEntry(primary[i],
                               Cut(primary[i].content, AdditionalChars))])
        \o Part("ADDITIONAL CONTEXT (Supporting Information)",
                [i \in 1..Len(additional) |->
                    LabelledEntry(additional[i],
                                  Cut(additional[i].content, AdditionalChars))])

\* GroqService._build_citation_user_prompt
CitationUserPrompt(context_chunks) ==
    LET primary == SelectSeq(context_chunks, LAMBDA c : c.is_primary)
        additional == SelectSeq(context_chunks, LAMBDA c : ~c.is_primary)
    IN  Part("PRIMARY CONTEXT (Highest Relevance)",
             [i \in 1..Len(primary) |->
                 LabelledEntry(primary[i], Whole(primary[i].content))])
        \o Part("ADDITIONAL CONTEXT (Supporting Information)",
                [i \in 1..Len(additional) |->
                    LabelledEntry(additional[i],
                                  Cut(additional[i].content, AdditionalChars))])

ComparisonHeadings ==
    <<"PMBOK 7th Edition (2021)", "PRINCE2 (2017)", "ISO 21502:2020">>

\* One standard's block of _build_comparison_user_prompt
ComparisonPart(chunks, heading) ==
    LET shown == Take(chunks, ComparisonChunks)
    IN  Part(heading, [j \in 1..Len(shown) |->
                          PromptEntry(shown[j], Whole(shown[j].content))])

\* GroqService._build_comparison_user_prompt(topic, pmbok_chunks,
\* prince2_chunks, iso_chunks), called with chunk_data's three lists
ComparisonUserPrompt(data) ==
    Concat([i \in 1..Len(data) |-> ComparisonPart(data[i], ComparisonHeadings[i])])

\* One standard's block of _build_process_user_prompt
ProcessPart(context_chunks, i) ==
    LET chunks == SelectSeq(context_chunks, LAMBDA c : c.standard = Standards[i])
        shown == Take(chunks, ProcessChunks)
    IN  Part(ComparisonHeadings[i],
             [j \in 1..Len(shown) |->
                 PromptEntry(shown[j], Cut(shown[j].content, ProcessChars))])

\* GroqService._build_process_user_prompt
ProcessUserPrompt(context_chunks) ==
    Concat([i \in 1..Len(Standards) |-> ProcessPart(context_chunks, i)])

NoPrompt == <<>>

\* embed_texts is not running
NoEmbedTexts ==
    [pc |-> "idle", texts |-> <<>>, batch_size |-> 0, max_retries |-> 0,
     i |-> 0, retries |-> 0, all_embeddings |-> <<>>, waits |-> <<>>]

\* No exception has been raised
NoRaised == [type |-> "none", context |-> "none"]

\* load_standard_data is not running
NoLoad ==
    [pc |-> "idle", valid_chunks |-> <<>>, skipped_count |-> 0,
     inserted_count |-> 0, duplicate_count |-> 0, error_count |-> 0,
     runs |-> 0]

\* The services that have a module-level singleton and a lazy getter
ServiceNames == {"voyage", "qdrant", "groq", "rag"}

\* The process after import: `_voyage_service = None` and the like.  An
\* instance is identified by its rank among the objects constructed;
\* `called`, `attempted` and `constructed` count, per service, the calls of
\* the getter, the constructor calls and the constructor calls that returned;
\* `returned` holds every instance that the getter has returned.
NoSingletons ==
    [pc          |-> "startup",
     instance    |-> [g \in ServiceNames |-> None],
     called      |-> [g \in ServiceNames |-> 0],
     attempted   |-> [g \in ServiceNames |-> 0],
     constructed |-> [g \in ServiceNames |-> 0],
     returned    |-> [g \in ServiceNames |-> {}],
     objects     |-> 0,
     raised      |-> FALSE,
     startup_failed |-> FALSE,
     handled     |-> 0]

NoParams == [none |-> TRUE]
NoResult == [none |-> TRUE]
NoCalls == [embed |-> 0, search |-> 0, fetch |-> 0, generate |-> 0, provider |-> 0]
NoSection == [none |-> TRUE]
NoCitations == [none |-> TRUE]

Bump(c, field, n) == [c EXCEPT ![field] = @ + n]

(***************************************************************************)
(* Requests.                                                               *)
(***************************************************************************)
Init ==
    /\ db \in DbStates
    /\ pc = "idle"
    /\ op = "none"
    /\ params = NoParams
    /\ query_embedding = NoVector
    /\ search_queries = <<>>
    /\ embedder = <<>>
    /\ all_results = <<>>
    /\ primary_chunks = <<>>
    /\ additional_chunks = <<>>
    /\ chunk_data = <<>>
    /\ all_chunks = <<>>
    /\ top_chunks = <<>>
    /\ retries = 0
    /\ attempts = 0
    /\ calls = NoCalls
    /\ result = NoResult
    /\ error = "none"
    /\ citeIn = NoSection
    /\ citeOut = NoCitations
    /\ prompt = NoPrompt
    /\ load = NoLoad
    /\ raised = NoRaised
    /\ voyage = NoEmbedTexts
    /\ singletons = NoSingletons

\* Variant: a failing step ends the request with an answer built from what
\* has been gathered so far
RaisePartial(exception, made) ==
    /\ pc' = "failed"
    /\ error' = exception
    /\ calls' = made
    /\ result' = CASE op = "query"   -> [primary_sources    |-> primary_chunks,
                                         additional_context |-> additional_chunks]
                   [] op = "compare" -> [sources |-> chunk_data]
                   [] OTHER          -> [source_sections_count |-> Len(all_chunks)]
    /\ UNCHANGED <<singletons, voyage, raised, load, db, op, params, query_embedding, search_queries, embedder,
                   all_results, primary_chunks, additional_chunks, chunk_data,
                   all_chunks, top_chunks, retries, attempts, citeIn, citeOut,
                   prompt>>

\* An exception of the given type, raised while handling `context`, leaves
\* the method: its locals are gone, nothing is returned.
RaiseFrom(exception, made, type, context) ==
    /\ pc' = "failed"
    /\ error' = exception
    /\ raised' = [type |-> type, context |-> context]
    /\ calls' = made
    /\ result' = NoResult
    /\ query_embedding' = NoVector
    /\ search_queries' = <<>>
    /\ embedder' = <<>>
    /\ all_results' = <<>>
    /\ primary_chunks' = <<>>
    /\ additional_chunks' = <<>>
    /\ chunk_data' = <<>>
    /\ all_chunks' = <<>>
    /\ top_chunks' = <<>>
    /\ retries' = 0
    /\ attempts' = 0
    /\ prompt' = NoPrompt
    /\ UNCHANGED <<singletons, voyage, load, db, op, params, citeIn, citeOut>>

\* An exception raised by a callee passes through the method as it is
Raise(exception, made) == RaiseFrom(exception, made, exception, "none")

\* RAGService.query_with_citations is called
QueryWithCitations(query, top_k_per_standard, score_threshold) ==
    /\ pc = "idle"
    /\ pc' = "embed"
    /\ op' = "query"
    /\ params' = [query              |-> query,
                  top_k_per_standard |-> top_k_per_standard,
                  score_threshold    |-> score_threshold]
    /\ UNCHANGED <<singletons, voyage, raised, load, db, query_embedding, search_queries, embedder, all_results,
                   primary_chunks, additional_chunks, chunk_data, all_chunks,
                   top_chunks, retries, attempts, calls, result, error,
                   citeIn, citeOut,
                   prompt>>

\* The bodies of POST /search a client may send: query texts of 0, 2 and 24
\* characters, caps and thresholds inside and outside their ranges
SearchRequests ==
    [query              : {"", "ab", "What is risk management?"},
     top_k_per_standard : 0..MaxK \cup {11},
     score_threshold    : Thresholds \cup {0 - 5, 105}]

\* Variant: a request schema without constraints
ValidAlways(request) == TRUE

\* SearchRequest: query min_length=3, max_length=500; top_k_per_standard
\* ge=1, le=10; score_threshold ge=0.0, le=1.0
ValidSearchRequest(request) ==
    /\ Len(request.query) >= 3
    /\ Len(request.query) <= 500
    /\ request.top_k_per_standard >= 1
    /\ request.top_k_per_standard <= 10
    /\ request.score_threshold >= 0
    /\ request.score_threshold <= 100

\* The request body fails validation: the handler is not entered and the
\* client gets the validation error
Reject(request) ==
    /\ pc = "idle"
    /\ pc' = "rejected"
    /\ op' = "query"
    /\ params' = request
    /\ error' = "RequestValidationError"
    /\ UNCHANGED <<singletons, voyage, raised, load, db, query_embedding, search_queries, embedder, all_results,
                   primary_chunks, additional_chunks, chunk_data, all_chunks,
                   top_chunks, retries, attempts, calls, result, citeIn, citeOut,
                   prompt>>

\* routers/search.py: semantic_search(request: SearchRequest)
SemanticSearch(request) ==
    IF ValidSearchRequest(request)
    THEN QueryWithCitations(request.query, request.top_k_per_standard,
                            request.score_threshold)
    ELSE Reject(request)

\* RAGService.compare_standards is called
CompareStandards(top_k_per_standard, score_threshold) ==
    /\ pc = "idle"
    /\ pc' = "embed"
    /\ op' = "compare"
    /\ params' = [top_k_per_standard |-> top_k_per_standard,
                  score_threshold    |-> score_threshold]
    /\ UNCHANGED <<singletons, voyage, raised, load, db, query_embedding, search_queries, embedder, all_results,
                   primary_chunks, additional_chunks, chunk_data, all_chunks,
                   top_chunks, retries, attempts, calls, result, error,
                   citeIn, citeOut,
                   prompt>>

\* RAGService.generate_process is called
GenerateProcess(priorities, focus_areas) ==
    /\ pc = "idle"
    /\ pc' = "embed"
    /\ op' = "process"
    /\ params' = [project_type |-> "software_development",
                  priorities   |-> priorities,
                  focus_areas  |-> focus_areas,
                  top_k        |-> ProcessTopK]
    /\ search_queries' =
          BuildSearchQueries("software_development", priorities, focus_areas)
    /\ embedder' \in Embeddings(Len(search_queries'))
    /\ UNCHANGED <<singletons, voyage, raised, load, db, query_embedding, all_results, primary_chunks,
                   additional_chunks, chunk_data, all_chunks, top_chunks,
                   retries, attempts, calls, result, error, citeIn, citeOut,
                   prompt>>

\* VoyageEmbeddingService.embed_query -> embed_texts: client.embed returns
EmbedQueryOk ==
    /\ pc = "embed"
    /\ pc' = "search"
    /\ IF op = "process"
       THEN query_embedding' =
               embedder[Len(embedder) - Len(search_queries) + 1]
       ELSE query_embedding' \in QueryVectors
    /\ retries' = 0
    /\ calls' = Bump(calls, "embed", 1)
    /\ UNCHANGED <<singletons, voyage, raised, load, db, op, params, search_queries, embedder, all_results,
                   primary_chunks, additional_chunks, chunk_data, all_chunks,
                   top_chunks, attempts, result, error, citeIn, citeOut,
                   prompt>>

\* The rate-limit answers the provider has given to the running request
RateLimited ==
    calls.embed - (IF op = "process"
                   THEN Len(embedder) - Len(search_queries) ELSE 0)

\* embed_texts: client.embed raises RateLimitError
EmbedRateLimit ==
    /\ pc = "embed"
    /\ RateLimited < MaxRateLimits
    /\ IF retries + 1 >= EmbedMaxRetries
       THEN Raise("RateLimitError", Bump(calls, "embed", 1))
       ELSE /\ retries' = retries + 1
            /\ calls' = Bump(calls, "embed", 1)
            /\ UNCHANGED <<singletons, voyage, raised, load, db, pc, op, params, query_embedding, search_queries,
                           embedder, all_results, primary_chunks,
                           additional_chunks, chunk_data, all_chunks,
                           top_chunks, attempts, result, error, citeIn, citeOut,
                   prompt>>

\* Variant: an error other than a rate limit is answered by another attempt
EmbedErrorRetried ==
    /\ pc = "embed"
    /\ calls.embed < EmbedMaxRetries + MaxRateLimits
    /\ calls' = Bump(calls, "embed", 1)
    /\ UNCHANGED <<singletons, voyage, raised, load, db, pc, op, params, query_embedding, search_queries,
                   embedder, all_results, primary_chunks, additional_chunks,
                   chunk_data, all_chunks, top_chunks, retries, attempts,
                   result, error, citeIn, citeOut,
                   prompt>>

\* embed_texts: client.embed raises another exception
EmbedError ==
    /\ pc = "embed"
    /\ Raise("EmbeddingError", Bump(calls, "embed", 1))

\* Variant: the generation call is made as soon as the first standard has
\* been searched
SearchStandardEager ==
    /\ pc = "search"
    /\ op \in {"query", "compare"}
    /\ \E results \in SearchByStandard(query_embedding,
                                       Standards[Len(all_results) + 1],
                                       params.top_k_per_standard,
                                       params.score_threshold) :
          all_results' = Append(all_results, results)
    /\ pc' = IF Len(all_results') = Len(Standards) THEN "fetch" ELSE "search"
    /\ calls' = Bump(Bump(calls, "search", 1),
                     "generate", IF Len(all_results') = 1 THEN 1 ELSE 0)
    /\ UNCHANGED <<singletons, voyage, raised, load, db, op, params, query_embedding, search_queries, embedder,
                   primary_chunks, additional_chunks, chunk_data, all_chunks,
                   top_chunks, retries, attempts, result, error, citeIn, citeOut,
                   prompt>>

\* query_with_citations / compare_standards: the search of the next standard
SearchStandard ==
    /\ pc = "search"
    /\ op \in {"query", "compare"}
    /\ \E results \in SearchByStandard(query_embedding,
                                       Standards[Len(all_results) + 1],
                                       params.top_k_per_standard,
                                       params.score_threshold) :
          all_results' = Append(all_results, results)
    /\ pc' = IF Len(all_results') = Len(Standards) THEN "fetch" ELSE "search"
    /\ calls' = Bump(calls, "search", 1)
    /\ UNCHANGED <<singletons, voyage, raised, load, db, op, params, query_embedding, search_queries, embedder,
                   primary_chunks, additional_chunks, chunk_data, all_chunks,
                   top_chunks, retries, attempts, result, error, citeIn, citeOut,
                   prompt>>

\* QdrantService.search: client.search raises
SearchError ==
    /\ pc = "search"
    /\ Raise("IndexError", Bump(calls, "search", 1))

\* Variant: one generation call per primary source
FetchAndAnswerEach ==
    /\ pc = "fetch"
    /\ op = "query"
    /\ chunk_data' = FetchChunkMetadata(all_results, db)
    /\ primary_chunks' = PrimaryChunks(chunk_data')
    /\ additional_chunks' = AdditionalChunks(chunk_data')
    /\ pc' = "generating"
    /\ attempts' = 0
    /\ calls' = Bump(Bump(calls, "fetch", FetchQueries(all_results)),
                     "generate", Len(primary_chunks'))
    /\ prompt' = CitationUserPrompt(primary_chunks' \o additional_chunks')
    /\ UNCHANGED <<singletons, voyage, raised, load, db, op, params, query_embedding, search_queries, embedder,
                   all_results, all_chunks, top_chunks, retries, result, error,
                   citeIn, citeOut>>

\* query_with_citations, steps 3 to 5: metadata, partition, and the call of
\* generate_citation_response up to the provider request
FetchAndAnswer ==
    /\ pc = "fetch"
    /\ op = "query"
    /\ chunk_data' = FetchChunkMetadata(all_results, db)
    /\ primary_chunks' = PrimaryChunks(chunk_data')
    /\ additional_chunks' = AdditionalChunks(chunk_data')
    /\ pc' = "generating"
    /\ attempts' = 0
    /\ calls' = Bump(Bump(calls, "fetch", FetchQueries(all_results)), "generate", 1)
    /\ prompt' = CitationUserPrompt(primary_chunks' \o additional_chunks')
    /\ UNCHANGED <<singletons, voyage, raised, load, db, op, params, query_embedding, search_queries, embedder,
                   all_results, all_chunks, top_chunks, retries, result, error,
                   citeIn, citeOut>>

\* compare_standards: metadata and the call of generate_comparison_response
FetchAndCompare ==
    /\ pc = "fetch"
    /\ op = "compare"
    /\ chunk_data' = FetchChunkMetadata(all_results, db)
    /\ pc' = "generating"
    /\ attempts' = 0
    /\ calls' = Bump(Bump(calls, "fetch", FetchQueries(all_results)), "generate", 1)
    /\ prompt' = ComparisonUserPrompt(chunk_data')
    /\ UNCHANGED <<singletons, voyage, raised, load, db, op, params, query_embedding, search_queries, embedder,
                   all_results, primary_chunks, additional_chunks, all_chunks,
                   top_chunks, retries, result, error, citeIn, citeOut>>

\* _fetch_chunk_metadata: db_session.execute raises on its n-th SELECT
FetchError ==
    /\ pc = "fetch"
    /\ \E n \in 1..FetchQueries(all_results) :
          Raise("MetadataError", Bump(calls, "fetch", n))

\* generate_process: search, metadata and accumulation for one query; after
\* the last query, deduplication, ranking and the call of
\* generate_process_response up to the provider request
SearchAndCollect ==
    /\ pc = "search"
    /\ op = "process"
    /\ \E results \in Search(query_embedding, params.top_k, ProcessThreshold,
                             NoFilter) :
          /\ all_chunks' =
                all_chunks \o CollectRows(results, db, Head(search_queries))
          /\ calls' =
                Bump(Bump(Bump(calls, "search", 1),
                          "fetch", IF results = <<>> THEN 0 ELSE 1),
                     "generate", IF Tail(search_queries) = <<>> THEN 1 ELSE 0)
    /\ search_queries' = Tail(search_queries)
    /\ IF search_queries' = <<>>
       THEN /\ top_chunks' = TopChunks(all_chunks')
            /\ prompt' = ProcessUserPrompt(top_chunks')
            /\ pc' = "generating"
       ELSE /\ top_chunks' = top_chunks
            /\ prompt' = prompt
            /\ pc' = "embed"
    /\ attempts' = 0
    /\ UNCHANGED <<singletons, voyage, raised, load, db, op, params, query_embedding, embedder, all_results,
                   primary_chunks, additional_chunks, chunk_data, retries,
                   result, error, citeIn, citeOut>>

\* generate_process: db_session.execute raises
CollectError ==
    /\ pc = "search"
    /\ op = "process"
    /\ \E results \in Search(query_embedding, params.top_k, ProcessThreshold,
                             NoFilter) :
          /\ results # <<>>
          /\ Raise("MetadataError", Bump(Bump(calls, "search", 1), "fetch", 1))

\* What the running operation returns once the completion has arrived
Response ==
    CASE op = "query"   -> QueryResult(primary_chunks, additional_chunks)
      [] op = "compare" -> CompareResult(chunk_data)
      [] OTHER          -> ProcessResult(top_chunks)

\* SourceReference of the response model of POST /search: page_start is a
\* required int, relevance_score lies in [0, 1].
ValidSourceReference(source) ==
    /\ source.page_start # None
    /\ source.relevance_score \in 0..100

\* SearchResponse, validated by the framework when the handler returns
ValidSearchResponse(response) ==
    /\ \A i \in 1..Len(response.primary_sources) :
          ValidSourceReference(response.primary_sources[i])
    /\ \A i \in 1..Len(response.additional_context) :
          ValidSourceReference(response.additional_context[i])

\* POST /search: the generation has returned, the handler's return value
\* does not fit SearchResponse, the request ends in an error.
ResponseRejected ==
    /\ pc = "generating"
    /\ op = "query"
    /\ ~ValidSearchResponse(Response)
    /\ Raise("ResponseValidationError", Bump(calls, "provider", 1))

\* GroqService.generate_response: client.chat.completions.create returns
CompletionOk ==
    /\ pc = "generating"
    /\ op = "query" => ValidSearchResponse(Response)
    /\ pc' = "done"
    /\ result' = Response
    /\ calls' = Bump(calls, "provider", 1)
    /\ UNCHANGED <<singletons, voyage, raised, load, db, op, params, query_embedding, search_queries, embedder,
                   all_results, primary_chunks, additional_chunks, chunk_data,
                   all_chunks, top_chunks, retries, attempts, error,
                   citeIn, citeOut,
                   prompt>>

\* Variant: a client that repeats a failed request without a limit
CompletionRetryForever ==
    /\ pc = "generating"
    /\ attempts' = attempts + 1
    /\ calls' = Bump(calls, "provider", 1)
    /\ UNCHANGED <<singletons, voyage, raised, load, db, pc, op, params, query_embedding, search_queries,
                   embedder, all_results, primary_chunks, additional_chunks,
                   chunk_data, all_chunks, top_chunks, retries, result, error,
                   citeIn, citeOut,
                   prompt>>

\* The Groq client (max_retries=2) repeats a request that failed with a
\* connection error, a rate limit or a server status
CompletionRetry ==
    /\ pc = "generating"
    /\ attempts < GroqMaxRetries
    /\ attempts' = attempts + 1
    /\ calls' = Bump(calls, "provider", 1)
    /\ UNCHANGED <<singletons, voyage, raised, load, db, pc, op, params, query_embedding, search_queries,
                   embedder, all_results, primary_chunks, additional_chunks,
                   chunk_data, all_chunks, top_chunks, retries, result, error,
                   citeIn, citeOut,
                   prompt>>

GroqErrors ==
    {"Groq API connection error", "Groq API rate limit exceeded", "Groq API error"}

\* What client.chat.completions.create, or the reading of its response,
\* may raise
ProviderFailures ==
    {"APIConnectionError", "RateLimitError", "APIStatusError", "UnexpectedError"}

\* Variant: one message for every failure of the provider
SurfacedGeneric(failure) ==
    IF failure = "UnexpectedError" THEN "UnexpectedError" ELSE "Groq API error"

\* generate_response, the except clauses: the message of the exception that
\* is raised
SurfacedMessage(failure) ==
    CASE failure = "APIConnectionError" -> "Groq API connection error"
      [] failure = "RateLimitError"     -> "Groq API rate limit exceeded"
      [] failure = "APIStatusError"     -> "Groq API error"
      [] OTHER                          -> failure

\* generate_response, the except clauses: the type of the exception that is
\* raised; an unexpected exception is raised again as it is
SurfacedType(failure) ==
    IF failure \in {"APIConnectionError", "RateLimitError", "APIStatusError"}
    THEN "Exception"
    ELSE failure

\* generate_response: the client gives up (retries used up, or a failure
\* that it does not retry) and the except clause raises
CompletionError(failure) ==
    /\ pc = "generating"
    /\ attempts = GroqMaxRetries
          \/ failure \in {"APIStatusError", "UnexpectedError"}
    /\ RaiseFrom(SurfacedMessage(failure), Bump(calls, "provider", 1),
                 SurfacedType(failure), failure)

\* The caller has the result or the exception; the service is idle again
Finish ==
    /\ pc \in {"done", "failed", "rejected"}
    /\ pc' = "idle"
    /\ op' = "none"
    /\ params' = NoParams
    /\ query_embedding' = NoVector
    /\ search_queries' = <<>>
    /\ embedder' = <<>>
    /\ all_results' = <<>>
    /\ primary_chunks' = <<>>
    /\ additional_chunks' = <<>>
    /\ chunk_data' = <<>>
    /\ all_chunks' = <<>>
    /\ top_chunks' = <<>>
    /\ retries' = 0
    /\ attempts' = 0
    /\ calls' = NoCalls
    /\ result' = NoResult
    /\ error' = "none"
    /\ prompt' = NoPrompt
    /\ raised' = NoRaised
    /\ UNCHANGED <<singletons, voyage, load, db, citeIn, citeOut>>

Next ==
    \/ \E request \in SearchRequests : SemanticSearch(request)
    \/ \E k \in 1..MaxCompareK, t \in Thresholds : CompareStandards(k, t)
    \/ \E p \in PriorityInputs, f \in FocusInputs : GenerateProcess(p, f)
    \/ EmbedQueryOk
    \/ EmbedRateLimit
    \/ EmbedError
    \/ SearchStandard
    \/ SearchError
    \/ FetchAndAnswer
    \/ FetchAndCompare
    \/ FetchError
    \/ SearchAndCollect
    \/ CollectError
    \/ CompletionOk
    \/ ResponseRejected
    \/ CompletionRetry
    \/ \E failure \in ProviderFailures : CompletionError(failure)
    \/ Finish

Spec == Init /\ [][Next]_vars

(***************************************************************************)
(* The citation formatters on their own.                                   *)
(***************************************************************************)
\* The values of an Optional[int] page column
PageValues == {None} \cup 0..MaxPage

\* A chunk dictionary without a 'page_end' key
Absent == 0 - 2

\* A section to cite.  is_enum tells a StandardType member from a plain str
\* (load_data.py builds DocumentSection objects from plain strings); a
\* StandardType member is one of the three standards.
CiteInputs ==
    {c \in [standard       : StandardSet \cup {"AGILE"},
            is_enum        : BOOLEAN,
            section_number : {"2.8.5"},
            section_title  : {"Risk"},
            page_start     : PageValues,
            page_end       : PageValues \cup {Absent}] :
        c.is_enum => c.standard \in StandardSet}

\* The section as the chunk dictionary the services pass around
ChunkOf(section) ==
    LET base == [standard       |-> section.standard,
                 section_number |-> section.section_number,
                 section_title  |-> section.section_title,
                 page_start     |-> section.page_start]
    IN IF section.page_end = Absent
       THEN base
       ELSE [page_end |-> section.page_end] @@ base

\* The section as a DocumentSection object
SectionOf(section) ==
    [section EXCEPT !.page_end = IF @ = Absent THEN None ELSE @]

CitationFormats == {"APA", "MLA", "IEEE", "CHICAGO"}

InitCite ==
    /\ db = IdsAscending
    /\ pc = "idle"
    /\ op = "none"
    /\ params = NoParams
    /\ query_embedding = NoVector
    /\ search_queries = <<>>
    /\ embedder = <<>>
    /\ all_results = <<>>
    /\ primary_chunks = <<>>
    /\ additional_chunks = <<>>
    /\ chunk_data = <<>>
    /\ all_chunks = <<>>
    /\ top_chunks = <<>>
    /\ retries = 0
    /\ attempts = 0
    /\ calls = NoCalls
    /\ result = NoResult
    /\ error = "none"
    /\ citeIn \in CiteInputs
    /\ citeOut = [formatter |-> "none", format |-> "none",
                  page_ref |-> "none", text |-> "none"]
    /\ prompt = NoPrompt
    /\ load = NoLoad
    /\ raised = NoRaised
    /\ voyage = NoEmbedTexts
    /\ singletons = NoSingletons

Idle ==
    UNCHANGED <<singletons, voyage, raised, load, db, pc, op, params, query_embedding, search_queries, embedder,
                all_results, primary_chunks, additional_chunks, chunk_data,
                all_chunks, top_chunks, retries, attempts, calls, result,
                error, citeIn, prompt>>

\* RAGService._format_citation(chunk)
CiteFormatCitation ==
    /\ citeOut' = [formatter |-> "orchestrator",
                   format    |-> "none",
                   page_ref  |-> PageRef(citeIn.page_start,
                                         DictGet(ChunkOf(citeIn), "page_end")),
                   text      |-> FormatCitation(ChunkOf(citeIn))]
    /\ Idle

\* DocumentSection.get_citation(format)
CiteGetCitation(format) ==
    /\ citeOut' = [formatter |-> "model",
                   format    |-> format,
                   page_ref  |-> IF format = "APA"
                                 THEN SectionPageRef(SectionOf(citeIn))
                                 ELSE "none",
                   text      |-> GetCitation(SectionOf(citeIn), format)]
    /\ Idle

\* GroqService._format_chunk_citation(chunk)
CiteFormatChunkCitation ==
    /\ citeOut' = [formatter |-> "prompt",
                   format    |-> "none",
                   page_ref  |-> ChunkPageRef(ChunkOf(citeIn)),
                   text      |-> FormatChunkCitation(ChunkOf(citeIn))]
    /\ Idle

\* Chunk.get_citation(format)
CiteChunkGetCitation(format) ==
    /\ citeOut' = [formatter |-> "chunk_model",
                   format    |-> format,
                   page_ref  |-> IF format \in {"apa", "APA"}
                                 THEN ChunkModelPageRef(SectionOf(citeIn))
                                 ELSE "none",
                   text      |-> ChunkGetCitation(SectionOf(citeIn), format)]
    /\ Idle

NextCite ==
    \/ CiteFormatCitation
    \/ \E format \in CitationFormats : CiteGetCitation(format)
    \/ \E format \in {"apa", "APA", "ieee"} : CiteChunkGetCitation(format)
    \/ CiteFormatChunkCitation

SpecCite == InitCite /\ [][NextCite]_vars

(***************************************************************************)
(* Properties of query_with_citations, compare_standards, generate_process *)
(***************************************************************************)
Answered(operation) == pc = "done" /\ op = operation

Indices(seq) == 1..Len(seq)

\* The sources a finished query_with_citations returns
QuerySources == result.primary_sources \o result.additional_context

\* Every corpus has a point scoring above the threshold for the query vector
EveryCorpusScores ==
    \A s \in StandardSet :
        \E id \in Sections :
            /\ StandardOf(id) = s
            /\ IndexScore(query_embedding, id) > params.score_threshold

\* Every corpus's search returned a hit whose row is in document_sections
EveryCorpusHasRow ==
    \A i \in Indices(all_results) :
        \E j \in Indices(all_results[i]) : all_results[i][j].id \in Range(db)

ThreePrimaries ==
    /\ Len(result.primary_sources) = Len(Standards)
    /\ \A i \in Indices(result.primary_sources) :
          result.primary_sources[i].standard = Standards[i]

\* C1 as stated: whenever every corpus has a section scoring above the
\* threshold in the index, query_with_citations returns exactly three
\* primary sources, one per corpus.
C1_AsStated ==
    (Answered("query") /\ EveryCorpusScores) => ThreePrimaries

\* C1: whenever the search of every corpus returns at least one hit whose
\* metadata row exists, query_with_citations returns exactly three primary
\* sources, one per corpus, in the order PMBOK, PRINCE2, ISO_21502.
C1_OnePrimaryPerCorpus ==
    (Answered("query") /\ EveryCorpusHasRow) => ThreePrimaries

\* One corpus dominates in score, the best PMBOK hit has lost its row, and
\* there are still three primaries.
C1_Witness ==
    /\ Answered("query")
    /\ EveryCorpusHasRow
    /\ ThreePrimaries
    /\ \E j \in Indices(all_results[1]) : all_results[1][j].id \notin Range(db)
    /\ result.primary_sources[2].relevance_score
          > result.primary_sources[3].relevance_score

\* C2: query_with_citations returns at most one primary source per corpus,
\* and every additional_context entry scores no higher than the primary
\* source of its own corpus.
C2_PrimaryIsBest ==
    Answered("query") =>
        /\ \A i, j \in Indices(result.primary_sources) :
              i # j => result.primary_sources[i].standard
                         # result.primary_sources[j].standard
        /\ \A a \in Indices(result.additional_context) :
              \E p \in Indices(result.primary_sources) :
                 /\ result.primary_sources[p].standard
                       = result.additional_context[a].standard
                 /\ result.additional_context[a].relevance_score
                       <= result.primary_sources[p].relevance_score

\* A corpus with a primary and a strictly lower additional entry, stored in
\* the table in the opposite order.
C2_Witness ==
    /\ Answered("query")
    /\ db[1] > db[2]
    /\ \E a \in Indices(result.additional_context) :
          \E p \in Indices(result.primary_sources) :
             /\ result.primary_sources[p].standard
                   = result.additional_context[a].standard
             /\ result.additional_context[a].relevance_score
                   < result.primary_sources[p].relevance_score
             /\ result.additional_context[a].id > result.primary_sources[p].id

\* The scores of the sources a finished operation returns
ReturnedScores ==
    CASE op = "query" ->
            {QuerySources[i].relevance_score : i \in Indices(QuerySources)}
      [] op = "compare" ->
            UNION {{result.sources[i][j].relevance_score :
                      j \in Indices(result.sources[i])} :
                   i \in Indices(result.sources)}
      [] OTHER ->
            {top_chunks[i].score : i \in Indices(top_chunks)}

ThresholdInForce ==
    IF op = "process" THEN ProcessThreshold ELSE params.score_threshold

\* C3: no operation returns a source whose score is strictly below the
\* threshold in force: the caller's for query_with_citations and
\* compare_standards, 0.45 for generate_process.
C3_NoSourceBelowThreshold ==
    pc = "done" => \A score \in ReturnedScores : score >= ThresholdInForce

\* A comparison that returns sources while the index holds points of the
\* requested corpora that score below the threshold.
C3_Witness ==
    /\ Answered("compare")
    /\ ReturnedScores # {}
    /\ \E id \in Sections :
          /\ IndexScore(query_embedding, id) > 0
          /\ IndexScore(query_embedding, id) < params.score_threshold

NoHits == \A i \in Indices(all_results) : all_results[i] = <<>>

\* C4: a corpus whose search returned no hit is absent from primary_sources
\* and additional_context of the answer; and when no corpus returned a hit,
\* the metadata step cannot fail: it goes on to the one generation call with
\* empty evidence.
C4_EmptyCorpusAbsent ==
    /\ [](Answered("query") =>
            \A i \in Indices(all_results) :
                all_results[i] = <<>> =>
                    \A k \in Indices(QuerySources) :
                        QuerySources[k].standard # Standards[i])
    /\ [][(pc = "fetch" /\ op = "query" /\ NoHits) =>
             /\ pc' = "generating"
             /\ primary_chunks' = <<>>
             /\ additional_chunks' = <<>>
             /\ calls'.generate = 1]_vars

\* A query answered although no corpus had a hit
C4_Witness ==
    /\ Answered("query")
    /\ Len(all_results) = Len(Standards)
    /\ NoHits
    /\ result.primary_sources = <<>>
    /\ result.additional_context = <<>>
    /\ calls.generate = 1
    /\ calls.fetch = 0

\* generate_process has its evidence from the end of the last query on
Ranked == op = "process" /\ pc \in {"generating", "done"}

ObservedScores(id) ==
    {all_chunks[i].score : i \in {k \in Indices(all_chunks) : all_chunks[k].id = id}}

\* C5: in generate_process no section id occurs twice in the final evidence,
\* and every kept section carries the highest score observed for it over all
\* the queries.
C5_UniqueWithMaxScore ==
    Ranked =>
        /\ \A i, j \in Indices(top_chunks) :
              i # j => top_chunks[i].id # top_chunks[j].id
        /\ \A i \in Indices(top_chunks) :
              /\ top_chunks[i].score \in ObservedScores(top_chunks[i].id)
              /\ \A score \in ObservedScores(top_chunks[i].id) :
                    score <= top_chunks[i].score

\* A section found by two queries, first with the lower score, and another
\* one found first with the higher score; both are in the evidence.
C5_Witness ==
    /\ Answered("process")
    /\ \E i, j \in Indices(all_chunks) :
          /\ i < j
          /\ all_chunks[i].id = all_chunks[j].id
          /\ all_chunks[i].score < all_chunks[j].score
          /\ \E k \in Indices(top_chunks) : top_chunks[k].id = all_chunks[i].id
    /\ \E i, j \in Indices(all_chunks) :
          /\ i < j
          /\ all_chunks[i].id = all_chunks[j].id
          /\ all_chunks[i].score > all_chunks[j].score
          /\ \E k \in Indices(top_chunks) : top_chunks[k].id = all_chunks[i].id

\* C6: generate_process never keeps more than 15 sections as evidence, and
\* source_sections_count never exceeds 15.
C6_AtMostFifteen ==
    /\ Ranked => Len(top_chunks) <= 15
    /\ Answered("process") => result.source_sections_count <= 15

\* More than 15 distinct sections were retrieved and 15 are reported
C6_Witness ==
    /\ Answered("process")
    /\ Len(UniqueChunks(all_chunks)) > 15
    /\ result.source_sections_count = 15

\* The citation "{corpus} ({year}), Section {section_number}, {page_ref}"
ShortCitation(standard, source) ==
    standard \o " (" \o GetPublicationYear([standard |-> standard])
    \o "), Section " \o source.section_number \o ", "
    \o SectionPageRef([page_start |-> source.page_start,
                       page_end   |-> source.page_end])

\* The citation DocumentSection.get_citation(APA) gives for the source
ApaCitation(standard, source) ==
    GetCitation([standard       |-> standard,
                 is_enum        |-> TRUE,
                 section_number |-> source.section_number,
                 section_title  |-> source.section_title,
                 page_start     |-> source.page_start,
                 page_end       |-> source.page_end], "APA")

\* Every source of a finished query or comparison is cited as Cite gives it
CitedAs(Cite(_, _)) ==
    /\ Answered("query") =>
          \A k \in Indices(QuerySources) :
              QuerySources[k].citation
                 = Cite(QuerySources[k].standard, QuerySources[k])
    /\ Answered("compare") =>
          \A i \in Indices(result.sources) :
              \A j \in Indices(result.sources[i]) :
                  result.sources[i][j].citation
                     = Cite(Standards[i], result.sources[i][j])

\* C8 as stated: the citation of every source of query_with_citations and
\* compare_standards equals the output of DocumentSection.get_citation(APA),
\* "{corpus} ({year}). Section {section_number}: {section_title}. {page_ref}."
C8_AsStated == CitedAs(ApaCitation)

\* C8: the citation of every source of query_with_citations and
\* compare_standards is "{corpus} ({year}), Section {section_number},
\* {page_ref}", with the year and the page reference of the APA formatter
\* and without the section title.
C8_ShortCitation == CitedAs(ShortCitation)

\* A comparison returns a source that spans several pages
C8_Witness ==
    /\ Answered("compare")
    /\ \E i \in Indices(result.sources) :
          \E j \in Indices(result.sources[i]) :
              /\ result.sources[i][j].page_end # None
              /\ result.sources[i][j].page_end # result.sources[i][j].page_start
              /\ result.sources[i][j].citation
                    = ShortCitation(Standards[i], result.sources[i][j])

\* C10: every operation calls the generation client exactly once in a
\* request that succeeds, and never more than once in any request.
C10_OneGenerationCall ==
    /\ calls.generate <= 1
    /\ pc = "done" => calls.generate = 1

\* A process generated from seven searches with one generation call
C10_Witness ==
    /\ Answered("process")
    /\ calls.search = 7
    /\ calls.generate = 1

(***************************************************************************)
(* Properties of the citation formatters.                                  *)
(***************************************************************************)
Formatted == citeOut.formatter # "none" /\ citeOut.text \notin Exceptions

\* The page reference as specified: one page when page_end is absent or
\* equals page_start, a range otherwise
SpecifiedPageRef(page_start, page_end) ==
    IF page_end \in {Absent, None} \/ page_end = page_start
    THEN "p. " \o Str(page_start)
    ELSE "pp. " \o Str(page_start) \o "-" \o Str(page_end)

\* C7 as stated: each of the three formatters gives "p. {page_start}"
\* exactly when page_end is absent or equals page_start, and
\* "pp. {page_start}-{page_end}" otherwise.
C7_AsStated ==
    (Formatted /\ citeOut.page_ref # "none") =>
        citeOut.page_ref = SpecifiedPageRef(citeIn.page_start, citeIn.page_end)

SpecifiedYear(standard) ==
    CASE standard = "PMBOK"     -> "2021"
      [] standard = "PRINCE2"   -> "2017"
      [] standard = "ISO_21502" -> "2020"
      [] OTHER                  -> "2021"

\* C9 as stated: every formatter returns a string for every section and
\* never raises, also for a corpus outside the three standards and for a
\* missing page_end, and the year is 2021, 2017, 2020 for the three standards
\* and 2021 for any other corpus.
C9_AsStated ==
    citeOut.formatter # "none" =>
        /\ citeOut.text \notin Exceptions
        /\ YearMapGet(citeIn.standard) = SpecifiedYear(citeIn.standard)
        /\ GetPublicationYear(citeIn) = SpecifiedYear(citeIn.standard)
        /\ ChunkPublicationYear(citeIn) = SpecifiedYear(citeIn.standard)

(***************************************************************************)
(* Properties of the failure paths and of the order of the external calls. *)
(***************************************************************************)
\* A request to the generation provider was made in this step and did not
\* bring the completion
ProviderCallFailed ==
    /\ pc = "generating"
    /\ calls'.provider = calls.provider + 1
    /\ pc' # "done"

RetrievalComplete ==
    IF op = "process"
    THEN /\ search_queries = <<>>
         /\ calls.search = Len(embedder)
         /\ calls.embed >= Len(embedder)
    ELSE /\ Len(all_results) = Len(Standards)
         /\ calls.search = Len(Standards)
         /\ calls.embed >= 1
         /\ calls.fetch = FetchQueries(all_results)

\* C12: within one request the generation call is made only after every
\* embedding call, every search and every metadata fetch has completed, and
\* once it has been made no embedding, search or metadata call follows.
C12_GenerationLast ==
    /\ [](calls.generate >= 1 => pc \in {"generating", "done", "failed"})
    /\ [](pc = "generating" => RetrievalComplete)
    /\ [][(calls.generate >= 1 /\ pc' # "idle") =>
             /\ calls'.embed = calls.embed
             /\ calls'.search = calls.search
             /\ calls'.fetch = calls.fetch]_vars

\* generate_process at its generation call, after seven embedded and
\* searched queries and their metadata fetches
C12_Witness ==
    /\ pc = "generating"
    /\ op = "process"
    /\ calls.embed >= 7
    /\ calls.search = 7
    /\ calls.fetch >= 5
    /\ calls.generate = 1
    /\ calls.provider = 0

EmbedErrors == {"RateLimitError", "EmbeddingError"}

\* C13: a request in which the embedding call, a search, a metadata fetch or
\* the generation call fails returns no answer, only the error; no generation
\* call is made after a failed retrieval step, no search or fetch after a
\* failed embedding of a query or comparison, no fetch after a failed search
\* of one, and nothing at all runs after the failure.
C13_FailureReturnsNothing ==
    /\ [](pc = "failed" =>
            /\ result = NoResult
            /\ error # "none"
            /\ error \notin GroqErrors \cup {"UnexpectedError", "ResponseValidationError"} =>
                  (calls.generate = 0 /\ calls.provider = 0)
            /\ (error \in EmbedErrors /\ op # "process") =>
                  (calls.search = 0 /\ calls.fetch = 0)
            /\ (error = "IndexError" /\ op # "process") => calls.fetch = 0)
    /\ [](pc = "done" => error = "none")
    /\ [][pc = "failed" => (pc' = "idle" /\ calls' = NoCalls)]_vars

\* The search of the second corpus failed: no answer, no fetch, no generation
C13_Witness ==
    /\ pc = "failed"
    /\ op = "query"
    /\ error = "IndexError"
    /\ calls.search = 2
    /\ calls.fetch = 0
    /\ calls.generate = 0
    /\ result = NoResult

\* The contract of a search request: a query of at least three characters,
\* a per-corpus cap from 1 to 10, a threshold from 0 to 1
InContract(request) ==
    /\ request.query \notin {"", "ab"}
    /\ request.top_k_per_standard \in 1..10
    /\ request.score_threshold \in 0..100

RECURSIVE StoredHits(_)
StoredHits(hits) ==
    IF hits = <<>> THEN <<>>
    ELSE (IF Head(hits).id \in Range(db) THEN <<Head(hits)>> ELSE <<>>)
         \o StoredHits(Tail(hits))

\* The sources of a finished query that belong to a standard, in order
RECURSIVE OfStandard(_, _)
OfStandard(sources, standard) ==
    IF sources = <<>> THEN <<>>
    ELSE (IF Head(sources).standard = standard THEN <<Head(sources)>> ELSE <<>>)
         \o OfStandard(Tail(sources), standard)

\* A source shows the metadata of the hit's own row and the hit's score
Surfaces(source, hit) ==
    /\ source.section_number = Row(hit.id).section_number
    /\ source.section_title = Row(hit.id).section_title
    /\ source.page_start = Row(hit.id).page_start
    /\ source.page_end = Row(hit.id).page_end
    /\ source.relevance_score = hit.score

\* C15: an id returned by the index without a row in the metadata store does
\* not fail the request and is in none of primary_sources,
\* additional_context, comparison sources or process evidence, while every
\* other hit is surfaced with its own metadata and score.
C15_StrayIdsDropped ==
    /\ Answered("query") =>
          \A i \in Indices(all_results) :
              LET kept    == StoredHits(all_results[i])
                  sources == OfStandard(QuerySources, Standards[i])
              IN  /\ Len(sources) = Len(kept)
                  /\ \A j \in Indices(kept) :
                        /\ sources[j].id = kept[j].id
                        /\ Surfaces(sources[j], kept[j])
    /\ Answered("compare") =>
          \A i \in Indices(all_results) :
              LET kept == StoredHits(all_results[i])
              IN  /\ Len(result.sources[i]) = Len(kept)
                  /\ \A j \in Indices(kept) :
                        Surfaces(result.sources[i][j], kept[j])
    /\ Ranked =>
          /\ \A k \in Indices(all_chunks) : all_chunks[k].id \in Range(db)
          /\ \A k \in Indices(top_chunks) : top_chunks[k].id \in Range(db)

\* PMBOK's best hit has no row; its second hit is surfaced as the primary
C15_Witness ==
    /\ Answered("query")
    /\ Len(all_results[1]) = 2
    /\ all_results[1][1].id \notin Range(db)
    /\ all_results[1][2].id \in Range(db)
    /\ result.primary_sources[1].id = all_results[1][2].id
    /\ result.primary_sources[1].relevance_score = all_results[1][2].score

\* The provider is called for the batch in this step
EmbedCalled == pc = "embed" /\ calls'.embed = calls.embed + 1

\* C16: for a batch, embed_texts calls the provider at most max_retries = 3
\* times; it calls again only after a rate-limit signal, each of which is
\* counted; any other error fails the call at once; the third consecutive
\* rate-limit signal fails it; a failed call returns no embedding.  The
\* count of signals only grows inside a batch and is below max_retries, so
\* the loop ends.
C16_BoundedEmbedRetries ==
    /\ [](retries >= 0 /\ retries < EmbedMaxRetries)
    /\ []((pc = "failed" /\ error \in EmbedErrors) => query_embedding = NoVector)
    /\ [][EmbedCalled =>
             \/ /\ pc' = "search"
                /\ query_embedding' # NoVector \/ op = "process"
             \/ /\ pc' = "embed"
                /\ retries' = retries + 1
             \/ /\ pc' = "failed"
                /\ error' = "RateLimitError"
                /\ retries + 1 = EmbedMaxRetries
             \/ /\ pc' = "failed"
                /\ error' = "EmbeddingError"]_vars
    /\ [][pc = "embed" => (EmbedCalled /\ calls'.search = calls.search)]_vars

\* A query failed on its third consecutive rate-limit signal
C16_Witness ==
    /\ pc = "failed"
    /\ op = "query"
    /\ error = "RateLimitError"
    /\ calls.embed = EmbedMaxRetries
    /\ calls.search = 0


(***************************************************************************)
(* C17: surfaced sections carry a page                                     *)
(***************************************************************************)
\* The sources a finished compare_standards returns, over all standards
CompareSources == Concat(result.sources)

\* The sources of a finished search or comparison
SurfacedSources ==
    CASE pc = "done" /\ op = "query"   -> QuerySources
      [] pc = "done" /\ op = "compare" -> CompareSources
      [] OTHER                         -> <<>>

\* C17: every source returned by a finished search or comparison has a
\* section_number and a page_start that is not null; a hit on a stored row
\* whose page_start is null never ends in a returned source.
C17_AsStated ==
    \A i \in Indices(SurfacedSources) :
        /\ SurfacedSources[i].section_number # ""
        /\ SurfacedSources[i].page_start # None

\* A finished comparison returns the row stored without a page, cited with
\* the text of the missing value.
C17_NullPageSurfaced ==
    /\ pc = "done"
    /\ op = "compare"
    /\ \E i \in Indices(CompareSources) :
          /\ CompareSources[i].page_start = None
          /\ CompareSources[i].citation = "PRINCE2 (2017), Section 17.1, p. None"


(***************************************************************************)
(* C18: the comparison prompt and the comparison's sources                 *)
(***************************************************************************)
\* The entries of the prompt's part under the given heading
EntriesUnder(heading) ==
    Concat([k \in 1..Len(prompt) |->
              IF prompt[k].heading = heading THEN prompt[k].entries ELSE <<>>])

\* The j-th chunk enriched for standard i is in that standard's block of the
\* prompt, with all of its content
ShownInFull(i, j) ==
    \E k \in Indices(EntriesUnder(ComparisonHeadings[i])) :
        /\ EntriesUnder(ComparisonHeadings[i])[k].citation =
              FormatChunkCitation(result.sources[i][j])
        /\ EntriesUnder(ComparisonHeadings[i])[k].content =
              Whole(chunk_data[i][j].content)

\* C18: every source a finished compare_standards lists for a standard was
\* in the comparison prompt under that standard's heading, with its complete
\* content.
C18_AsStated ==
    Answered("compare") =>
        \A i \in Indices(result.sources) :
            \A j \in Indices(result.sources[i]) : ShownInFull(i, j)

\* A comparison with a cap of three returned three sources of one standard
\* and its prompt held two of them
C18_ThirdChunkOmitted ==
    /\ Answered("compare")
    /\ params.top_k_per_standard = MaxCompareK
    /\ \E i \in Indices(result.sources) :
          /\ Len(result.sources[i]) = MaxCompareK
          /\ Len(EntriesUnder(ComparisonHeadings[i])) = ComparisonChunks
          /\ ShownInFull(i, 1) /\ ShownInFull(i, 2) /\ ~ShownInFull(i, 3)


\* With a cap of at most two, every source of a finished comparison was in
\* the prompt in full
C18_UpToTwoShown ==
    (Answered("compare") /\ params.top_k_per_standard <= ComparisonChunks) =>
        \A i \in Indices(result.sources) :
            \A j \in Indices(result.sources[i]) : ShownInFull(i, j)


(***************************************************************************)
(* C19: the searches of generate_process                                   *)
(***************************************************************************)
FixedQueries ==
    <<"software_development project lifecycle phases",
      "project initiation and planning",
      "project execution and monitoring",
      "project closure and lessons learned">>

Items(list) == IF list.is_none THEN <<>> ELSE list.items

\* The queries the claim lists for the given arguments
ExpectedQueries(priorities, focus_areas) ==
    FixedQueries
    \o Items(focus_areas)
    \o [i \in 1..(IF Len(Items(priorities)) < 2 THEN Len(Items(priorities)) ELSE 2) |->
           Items(priorities)[i] \o " in project management"]

\* The position in the list of queries of the query being worked on
Position == Len(embedder) - Len(search_queries) + 1

\* The points scoring above 0.45 for the vector, whatever their standard
AboveProcessThreshold(v) == {id \in Sections : IndexScore(v, id) > 45}

\* The five best of them
FiveBest(v) ==
    {id \in AboveProcessThreshold(v) :
        Cardinality({other \in AboveProcessThreshold(v) :
                        IndexScore(v, other) > IndexScore(v, id)}) < 5}

\* The chunks the step has appended to all_chunks
Appended == SubSeq(all_chunks', Len(all_chunks) + 1, Len(all_chunks'))

\* C19: generate_process builds the four fixed queries, then one per focus
\* area, then one for each of the first two priorities (4 + |focus_areas| +
\* min(2, |priorities|) queries, none for an absent list); every query is
\* embedded by one embed_query call and then searched once, without a
\* standard filter, with limit 5 and threshold 0.45; when generation starts
\* the number of searches and of embeddings equals the number of queries.
C19_QueriesEmbeddedAndSearchedOnce ==
    /\ [][(pc = "idle" /\ op' = "process") =>
             /\ search_queries' =
                   ExpectedQueries(params'.priorities, params'.focus_areas)
             /\ Len(search_queries') =
                   4 + Len(Items(params'.focus_areas))
                     + (IF Len(Items(params'.priorities)) < 2
                        THEN Len(Items(params'.priorities)) ELSE 2)
             /\ Len(embedder') = Len(search_queries')]_vars
    /\ [][(op = "process" /\ pc = "embed" /\ pc' = "search") =>
             /\ query_embedding' = embedder[Position]
             /\ search_queries' = search_queries
             /\ calls'.embed = calls.embed + 1
             /\ calls'.search = calls.search]_vars
    /\ [][(op = "process" /\ pc = "search" /\ pc' # "failed") =>
             /\ search_queries' = Tail(search_queries)
             /\ calls'.search = calls.search + 1
             /\ calls'.embed = calls.embed
             /\ {Appended[i].id : i \in Indices(Appended)} =
                   FiveBest(query_embedding) \cap Range(db)
             /\ \A i \in Indices(Appended) :
                   /\ Appended[i].score = IndexScore(query_embedding, Appended[i].id)
                   /\ Appended[i].search_query = Head(search_queries)]_vars
    /\ []((op = "process" /\ pc \in {"generating", "done"}) =>
             /\ search_queries = <<>>
             /\ calls.search = Len(embedder)
             /\ calls.embed - RateLimited = Len(embedder)
             /\ Len(embedder) = Len(ExpectedQueries(params.priorities,
                                                    params.focus_areas)))

\* A process generated from three priorities and one focus area: seven
\* queries, the third priority not among them, seven searches, and one of
\* the searches cut at five hits although six points scored above 0.45
C19_Witness ==
    /\ Answered("process")
    /\ Len(Items(params.priorities)) = 3
    /\ Len(Items(params.focus_areas)) = 1
    /\ Len(embedder) = 7
    /\ calls.search = 7
    /\ \E i \in Indices(embedder) :
          Cardinality(AboveProcessThreshold(embedder[i])) > 5
    /\ \E i \in Indices(all_chunks) :
          all_chunks[i].search_query = "priority 2 in project management"


(***************************************************************************)
(* scripts/load_data.py: DataLoader.  In this specification db is the      *)
(* document_sections table as the loader fills it, one record per row.     *)
(* A section number is the sequence of its characters.                     *)
(***************************************************************************)
RawStandards == {"PMBOK", "pmbok ", "Agile"}

\* DataLoader.normalize_standard_name, on the names above
NormalizeStandardName(standard) ==
    CASE standard = "PMBOK"  -> "PMBOK"
      [] standard = "pmbok " -> "PMBOK"
      [] standard = "Agile"  -> "AGILE"
      [] OTHER               -> standard

RawSections == {<<"1", ".", "2">>, <<"1", ".", "2", "a">>, <<"A">>}

RawPages == {5, None, Absent}

\* The chunks of a data file: 'page_start' may be a number, null, or missing
RawChunks ==
    [standard : RawStandards, section_number : RawSections, page_start : RawPages]

RECURSIVE JoinChars(_)
JoinChars(chars) ==
    IF chars = <<>> THEN "" ELSE Head(chars) \o JoinChars(Tail(chars))

DigitsAndDots == {"0", "1", "2", "3", "4", "5", "6", "7", "8", "9", "."}

\* re.sub(r'[^\d.]', '', str(section)), "0" when nothing is left
SectionClean(section) ==
    LET kept == SelectSeq(section, LAMBDA c : c \in DigitsAndDots)
    IN  IF kept = <<>> THEN "0" ELSE JoinChars(kept)

\* chunk.get("page_start", 0)
KeyPage(chunk) == IF chunk.page_start = Absent THEN 0 ELSE chunk.page_start

\* DataLoader.generate_citation_key
GenerateCitationKey(chunk) ==
    NormalizeStandardName(chunk.standard) \o "_"
    \o SectionClean(chunk.section_number) \o "_" \o Str(KeyPage(chunk))

\* DataLoader.normalize_chunk: the columns of the row to insert
NormalizeChunk(chunk) ==
    [standard       |-> NormalizeStandardName(chunk.standard),
     section_number |-> JoinChars(chunk.section_number),
     page_start     |-> IF chunk.page_start = Absent THEN None
                        ELSE chunk.page_start,
     citation_key   |-> GenerateCitationKey(chunk)]

\* DataLoader.validate_chunk
ValidateChunk(normalized) ==
    /\ normalized.standard # ""
    /\ normalized.section_number # ""
    /\ normalized.standard \in StandardSet

\* The data files load_json_file may return
RawFiles ==
    UNION {[1..n -> RawChunks] : n \in 1..MaxFileChunks}

Service ==
    <<pc, op, params, query_embedding, search_queries, embedder, all_results,
      primary_chunks, additional_chunks, chunk_data, all_chunks, top_chunks,
      retries, attempts, calls, result, error, citeIn, citeOut, prompt,
      raised, voyage, singletons>>

InitLoad ==
    /\ db = <<>>
    /\ pc = "idle"
    /\ op = "none"
    /\ params = NoParams
    /\ query_embedding = NoVector
    /\ search_queries = <<>>
    /\ embedder = <<>>
    /\ all_results = <<>>
    /\ primary_chunks = <<>>
    /\ additional_chunks = <<>>
    /\ chunk_data = <<>>
    /\ all_chunks = <<>>
    /\ top_chunks = <<>>
    /\ retries = 0
    /\ attempts = 0
    /\ calls = NoCalls
    /\ result = NoResult
    /\ error = "none"
    /\ citeIn = NoSection
    /\ citeOut = NoCitations
    /\ prompt = NoPrompt
    /\ load = NoLoad
    /\ raised = NoRaised
    /\ voyage = NoEmbedTexts
    /\ singletons = NoSingletons

\* No run of load_standard_data is in progress
LoadIdle == load.pc \in {"idle", "returned", "raised"}

\* load_standard_data: the file is read, its chunks are normalized and
\* validated; a dry run returns the number of valid chunks
LoadStandardData(raw_chunks, dry_run) ==
    /\ LoadIdle
    /\ load.runs < MaxLoadRuns
    /\ LET normalized == [i \in 1..Len(raw_chunks) |-> NormalizeChunk(raw_chunks[i])]
           valid == SelectSeq(normalized, ValidateChunk)
       IN  load' = [pc              |-> IF dry_run THEN "returned" ELSE "inserting",
                    valid_chunks    |-> valid,
                    skipped_count   |-> Len(normalized) - Len(valid),
                    inserted_count  |-> 0,
                    duplicate_count |-> 0,
                    error_count     |-> 0,
                    runs            |-> load.runs + 1]
    /\ UNCHANGED db
    /\ UNCHANGED Service

\* load_json_file raises: the run ends with the exception
LoadFileError ==
    /\ LoadIdle
    /\ load.runs < MaxLoadRuns
    /\ load' = [NoLoad EXCEPT !.pc = "raised", !.runs = load.runs + 1]
    /\ UNCHANGED db
    /\ UNCHANGED Service

\* The unique constraint on document_sections.citation_key
KeyStored(key) == \E i \in 1..Len(db) : db[i].citation_key = key

\* One turn of the insertion loop: the flush succeeds, or the unique
\* constraint rejects the row and the savepoint is rolled back
InsertChunk ==
    /\ load.pc = "inserting"
    /\ load.valid_chunks # <<>>
    /\ IF KeyStored(Head(load.valid_chunks).citation_key)
       THEN /\ db' = db
            /\ load' = [load EXCEPT !.valid_chunks = Tail(load.valid_chunks),
                                    !.duplicate_count = load.duplicate_count + 1]
       ELSE /\ db' = Append(db, Head(load.valid_chunks))
            /\ load' = [load EXCEPT !.valid_chunks = Tail(load.valid_chunks),
                                    !.inserted_count = load.inserted_count + 1]
    /\ UNCHANGED Service

\* One turn of the insertion loop: the flush raises another error
InsertError ==
    /\ load.pc = "inserting"
    /\ load.valid_chunks # <<>>
    /\ db' = db
    /\ load' = [load EXCEPT !.valid_chunks = Tail(load.valid_chunks),
                            !.error_count = load.error_count + 1]
    /\ UNCHANGED Service

\* session.commit(), the summary lines, return inserted_count
CommitLoad ==
    /\ load.pc = "inserting"
    /\ load.valid_chunks = <<>>
    /\ load' = [load EXCEPT !.pc = "returned"]
    /\ UNCHANGED db
    /\ UNCHANGED Service

NextLoad ==
    \/ \E raw_chunks \in RawFiles, dry_run \in BOOLEAN :
          LoadStandardData(raw_chunks, dry_run)
    \/ LoadFileError
    \/ InsertChunk
    \/ InsertError
    \/ CommitLoad

SpecLoad == InitLoad /\ [][NextLoad]_vars


(***************************************************************************)
(* C20: citation keys of loaded sections                                   *)
(***************************************************************************)
\* Two stored rows with the same standard, section number and page
SameSection(i, j) ==
    /\ db[i].standard = db[j].standard
    /\ db[i].section_number = db[j].section_number
    /\ db[i].page_start = db[j].page_start

\* The citation key is determined by standard, section number and page
KeyIsFunction ==
    \A i, j \in 1..Len(db) : SameSection(i, j) => db[i].citation_key = db[j].citation_key

\* No two stored rows share a citation key
KeysUnique ==
    \A i, j \in 1..Len(db) : db[i].citation_key = db[j].citation_key => i = j

\* The insertion loop is at a chunk whose key is already stored
Collides ==
    /\ load.pc = "inserting"
    /\ load.valid_chunks # <<>>
    /\ KeyStored(Head(load.valid_chunks).citation_key)

\* C20: the citation key of a stored section is a function of its standard,
\* its section number and its page_start; no two stored sections share a key
\* after any sequence of loads; and a chunk whose key is already stored is
\* counted as an error of the load, or ends the load with an exception.
C20_AsStated ==
    /\ [](KeyIsFunction /\ KeysUnique)
    /\ [][Collides => (load'.error_count = load.error_count + 1
                       \/ load'.pc = "raised")]_vars

\* What holds of the keys: they are unique in the table, and a chunk whose
\* key is already stored is not inserted
C20_KeysStayUnique ==
    /\ []KeysUnique
    /\ [][Collides => db' = db]_vars

\* A load returned normally, with no error counted, after it skipped a chunk
\* whose key was already stored
C20_CollisionSkipped ==
    /\ load.pc = "returned"
    /\ load.duplicate_count = 1
    /\ load.error_count = 0
    /\ load.inserted_count = 1
    /\ load.runs = 1
    /\ Len(db) = 1

\* Two stored rows of one section (same standard, number and null page) with
\* different keys: one file had no page_start, the other a null one
C20_TwoKeysOneSection ==
    \E i, j \in 1..Len(db) :
        /\ SameSection(i, j)
        /\ db[i].citation_key = "PMBOK_1.2_0"
        /\ db[j].citation_key = "PMBOK_1.2_None"


(***************************************************************************)
(* C21: the two lists of a search response and its statistics              *)
(***************************************************************************)
IdsOf(seq) == {seq[i].id : i \in Indices(seq)}

\* The ids the three searches returned that have a row in the store
EnrichedIds == IdsOf(Concat(all_results)) \cap Range(db)

\* C21: in a response of query_with_citations no section id is in both
\* primary_sources and additional_context nor twice in one of them, the two
\* lists together hold exactly the hits that were enriched with metadata,
\* and primary_sources_count, additional_sources_count and chunks_retrieved
\* are the lengths of the lists and their sum.
C21_ListsPartitionTheHits ==
    Answered("query") =>
        /\ IdsOf(result.primary_sources) \cap IdsOf(result.additional_context) = {}
        /\ Cardinality(IdsOf(result.primary_sources)) = Len(result.primary_sources)
        /\ Cardinality(IdsOf(result.additional_context)) =
              Len(result.additional_context)
        /\ IdsOf(QuerySources) = EnrichedIds
        /\ IdsOf(QuerySources) = IdsOf(Concat(chunk_data))
        /\ result.usage_stats.primary_sources_count = Len(result.primary_sources)
        /\ result.usage_stats.additional_sources_count =
              Len(result.additional_context)
        /\ result.usage_stats.chunks_retrieved =
              Len(result.primary_sources) + Len(result.additional_context)

\* Two corpora with one hit each and one with none: two primaries (PMBOK and
\* PRINCE2), no additional context, primary_sources_count = 2
C21_Witness ==
    /\ Answered("query")
    /\ Len(all_results[1]) = 1 /\ Len(all_results[2]) = 1 /\ all_results[3] = <<>>
    /\ Len(result.primary_sources) = 2
    /\ result.primary_sources[1].standard = "PMBOK"
    /\ result.primary_sources[2].standard = "PRINCE2"
    /\ result.additional_context = <<>>
    /\ result.usage_stats.primary_sources_count = 2

\* A response with a primary and an additional source of the same corpus
C21_WitnessBoth ==
    /\ Answered("query")
    /\ \E i \in Indices(result.primary_sources),
          j \in Indices(result.additional_context) :
          result.primary_sources[i].standard = result.additional_context[j].standard


(***************************************************************************)
(* C22: the prompt of a search                                             *)
(***************************************************************************)
PrimaryHeading == "PRIMARY CONTEXT (Highest Relevance)"
AdditionalHeading == "ADDITIONAL CONTEXT (Supporting Information)"

\* The prompt entry is the one of the chunk
EntryOf(entry, chunk) ==
    /\ entry.standard = chunk.standard
    /\ entry.citation =
          "Section " \o chunk.section_number \o ": " \o chunk.section_title
          \o " (" \o ChunkPageRef(chunk) \o ")"

\* The standard and citation line of every entry of a list
Lines(entries) ==
    {<<entries[i].standard, entries[i].citation>> : i \in Indices(entries)}

\* The prompt of a search has been built
QueryPrompted == op = "query" /\ pc \in {"generating", "done"}

\* C22: in the prompt of a search every primary chunk is under the PRIMARY
\* CONTEXT heading with all of its content, every additional chunk is under
\* the ADDITIONAL CONTEXT heading with its first 300 characters at most, no
\* chunk is under both headings, and the chunks under PRIMARY CONTEXT are
\* the primary_sources of the response.
C22_PromptMatchesSources ==
    /\ QueryPrompted =>
          LET shown == EntriesUnder(PrimaryHeading)
              more  == EntriesUnder(AdditionalHeading)
          IN  /\ Len(shown) = Len(primary_chunks)
              /\ \A i \in Indices(shown) :
                    /\ EntryOf(shown[i], primary_chunks[i])
                    /\ shown[i].content.chars = primary_chunks[i].content
                    /\ ~shown[i].content.ellipsis
              /\ Len(more) = Len(additional_chunks)
              /\ \A i \in Indices(more) :
                    /\ EntryOf(more[i], additional_chunks[i])
                    /\ more[i].content.chars <= 300
                    /\ more[i].content.chars <= additional_chunks[i].content
                    /\ more[i].content.chars = 300
                          \/ more[i].content.chars = additional_chunks[i].content
              /\ Lines(shown) \cap Lines(more) = {}
              /\ Len(prompt) = (IF shown = <<>> THEN 0 ELSE 1)
                               + (IF more = <<>> THEN 0 ELSE 1)
    /\ Answered("query") =>
          LET shown == EntriesUnder(PrimaryHeading)
          IN  /\ Len(shown) = Len(result.primary_sources)
              /\ \A i \in Indices(shown) :
                    EntryOf(shown[i], result.primary_sources[i])

\* A finished search whose prompt held a primary chunk longer than 300
\* characters in full, an additional chunk cut to 300 characters and an
\* additional chunk short enough to be shown whole
C22_Witness ==
    /\ Answered("query")
    /\ \E i \in Indices(EntriesUnder(PrimaryHeading)) :
          EntriesUnder(PrimaryHeading)[i].content.chars > 300
    /\ \E i \in Indices(additional_chunks) :
          /\ additional_chunks[i].content > 300
          /\ EntriesUnder(AdditionalHeading)[i].content.chars = 300
    /\ \E i \in Indices(additional_chunks) :
          /\ additional_chunks[i].content < 300
          /\ EntriesUnder(AdditionalHeading)[i].content.chars
                = additional_chunks[i].content


(***************************************************************************)
(* C23: the evidence of generate_process is the top of the ranking         *)
(***************************************************************************)
\* The sections that were found and are not in the final evidence
DroppedIds == IdsOf(all_chunks) \ IdsOf(top_chunks)

\* The score of a found section after deduplication: the highest observed
BestScore(id) ==
    CHOOSE score \in ObservedScores(id) :
        \A other \in ObservedScores(id) : other <= score

\* C23: the final evidence of generate_process is in descending order of
\* score, and every deduplicated section left out by the cut at 15 scores no
\* higher than any section that was kept.
C23_TopOfTheRanking ==
    Ranked =>
        /\ \A i, j \in Indices(top_chunks) :
              i < j => top_chunks[i].score >= top_chunks[j].score
        /\ \A id \in DroppedIds :
              \A k \in Indices(top_chunks) : BestScore(id) <= top_chunks[k].score
        /\ DroppedIds # {} => Len(top_chunks) = 15

\* A process whose ranking was cut: a section was dropped, it scores less
\* than the last one kept, and the evidence is not in the order of discovery
C23_Witness ==
    /\ Answered("process")
    /\ \E id \in DroppedIds : BestScore(id) < top_chunks[Len(top_chunks)].score
    /\ \E i, j \in Indices(all_chunks) :
          /\ i < j
          /\ all_chunks[i].score < all_chunks[j].score
          /\ all_chunks[i].id \in IdsOf(top_chunks)
          /\ all_chunks[j].id \in IdsOf(top_chunks)


(***************************************************************************)
(* C24: the failures of the generation provider                            *)
(***************************************************************************)
\* The three failure kinds the generation client tells apart
ProviderKinds == {"APIConnectionError", "RateLimitError", "APIStatusError"}

\* The kind of failure read back from the message of the surfaced error
KindOf(message) ==
    CASE message = "Groq API connection error"    -> "APIConnectionError"
      [] message = "Groq API rate limit exceeded" -> "RateLimitError"
      [] message = "Groq API error"               -> "APIStatusError"
      [] OTHER                                    -> "unknown"

\* The step ends the generation call with a failure of the provider
GenerationFailed ==
    /\ pc = "generating"
    /\ pc' = "failed"
    /\ raised'.context \in ProviderFailures

\* C24: a connectivity, rate-limit or status failure of the provider
\* reaches the caller as an exception of one and the same type, whose
\* message tells which of the three kinds occurred; and a failure of the
\* provider always ends the request with an error and without a result.
C24_KindsSurfacedAsOneType ==
    /\ [](raised.context \in ProviderKinds =>
             /\ pc = "failed"
             /\ raised.type = "Exception"
             /\ KindOf(error) = raised.context
             /\ result = NoResult)
    /\ [](raised.context \in ProviderFailures => (pc = "failed" /\ result = NoResult))
    /\ [](pc = "done" => raised = NoRaised)
    /\ [][GenerationFailed => (result' = NoResult /\ error' # "none")]_vars

\* A request failed on a rate limit of the generation provider after the
\* client's retries
C24_Witness ==
    /\ pc = "failed"
    /\ raised = [type |-> "Exception", context |-> "RateLimitError"]
    /\ error = "Groq API rate limit exceeded"
    /\ calls.provider = GroqMaxRetries + 1


(***************************************************************************)
(* VoyageEmbeddingService.embed_texts, for any list of texts, batch size   *)
(* and retry bound.                                                        *)
(***************************************************************************)
TextName(k) == "text " \o ToString(k)

\* The vector the provider computes for a text
EmbeddingOf(text) == [embedding_of |-> text]

\* texts[i:i + batch_size]
Batch(texts, i, batch_size) ==
    SubSeq(texts, i + 1,
           IF i + batch_size < Len(texts) THEN i + batch_size ELSE Len(texts))

NotVoyage ==
    <<db, load, pc, op, params, query_embedding, search_queries, embedder,
      all_results, primary_chunks, additional_chunks, chunk_data, all_chunks,
      top_chunks, retries, attempts, calls, result, error, citeIn, citeOut,
      prompt, raised, singletons>>

InitEmbed ==
    /\ db = <<>>
    /\ pc = "idle"
    /\ op = "none"
    /\ params = NoParams
    /\ query_embedding = NoVector
    /\ search_queries = <<>>
    /\ embedder = <<>>
    /\ all_results = <<>>
    /\ primary_chunks = <<>>
    /\ additional_chunks = <<>>
    /\ chunk_data = <<>>
    /\ all_chunks = <<>>
    /\ top_chunks = <<>>
    /\ retries = 0
    /\ attempts = 0
    /\ calls = NoCalls
    /\ result = NoResult
    /\ error = "none"
    /\ citeIn = NoSection
    /\ citeOut = NoCitations
    /\ prompt = NoPrompt
    /\ load = NoLoad
    /\ raised = NoRaised
    /\ voyage = NoEmbedTexts
    /\ singletons = NoSingletons

\* The top of the for loop for the batch at offset i: retries = 0, then the
\* while loop is entered, or skipped when max_retries is 0
AtBatch(locals, i) ==
    [locals EXCEPT !.i = i, !.retries = 0, !.waits = <<>>,
                   !.pc = IF 0 < locals.max_retries THEN "embed" ELSE "after"]

\* embed_texts(texts, batch_size=..., max_retries=...) is called
EmbedTexts(n, batch_size, max_retries) ==
    /\ voyage.pc \in {"idle", "returned", "raised"}
    /\ LET locals == [NoEmbedTexts EXCEPT
                         !.texts = [k \in 1..n |-> TextName(k)],
                         !.batch_size = batch_size,
                         !.max_retries = max_retries]
       IN  voyage' = IF n = 0
                     THEN [locals EXCEPT !.pc = "returned"]
                     ELSE AtBatch(locals, 0)
    /\ UNCHANGED NotVoyage

\* client.embed returns the vectors of the batch
ClientEmbedOk ==
    /\ voyage.pc = "embed"
    /\ LET batch == Batch(voyage.texts, voyage.i, voyage.batch_size)
       IN  voyage' = [voyage EXCEPT
                         !.all_embeddings =
                             @ \o [k \in 1..Len(batch) |-> EmbeddingOf(batch[k])],
                         !.pc = "after"]
    /\ UNCHANGED NotVoyage

\* client.embed raises RateLimitError: the error is raised again when the
\* retries are used up, else the call sleeps delay_between_batches * retries
ClientRateLimit ==
    /\ voyage.pc = "embed"
    /\ voyage' =
          IF voyage.retries + 1 >= voyage.max_retries
          THEN [voyage EXCEPT !.retries = @ + 1, !.pc = "raised",
                              !.all_embeddings = <<>>]
          ELSE [voyage EXCEPT !.retries = @ + 1,
                              !.waits = Append(@, DelayBetweenBatches
                                                  * (voyage.retries + 1))]
    /\ UNCHANGED NotVoyage

\* client.embed raises another exception
ClientError ==
    /\ voyage.pc = "embed"
    /\ voyage' = [voyage EXCEPT !.pc = "raised", !.all_embeddings = <<>>]
    /\ UNCHANGED NotVoyage

\* After the while loop: the next batch, or return all_embeddings
AfterBatch ==
    /\ voyage.pc = "after"
    /\ voyage' = IF voyage.i + voyage.batch_size < Len(voyage.texts)
                 THEN AtBatch(voyage, voyage.i + voyage.batch_size)
                 ELSE [voyage EXCEPT !.pc = "returned"]
    /\ UNCHANGED NotVoyage

NextEmbed ==
    \/ \E n \in 0..MaxTexts, batch_size \in 1..MaxBatchSize,
          max_retries \in 0..MaxRetriesArg : EmbedTexts(n, batch_size, max_retries)
    \/ ClientEmbedOk
    \/ ClientRateLimit
    \/ ClientError
    \/ AfterBatch

SpecEmbed == InitEmbed /\ [][NextEmbed]_vars

(***************************************************************************)
(* C25: the waits between the retries of a batch                           *)
(***************************************************************************)
\* C25: the waits of embed_texts between the successive retries of one batch
\* grow exponentially: each wait is at least twice the wait before it.
C25_AsStated ==
    \A k \in 1..(Len(voyage.waits) - 1) :
        voyage.waits[k + 1] >= 2 * voyage.waits[k]

\* The waits of one batch are delay_between_batches times 1, 2, 3, ..., and
\* there are fewer of them than max_retries
C25_LinearWaits ==
    /\ \A k \in 1..Len(voyage.waits) : voyage.waits[k] = DelayBetweenBatches * k
    /\ voyage.max_retries > 0 => Len(voyage.waits) < voyage.max_retries
    /\ voyage.pc = "embed" => Len(voyage.waits) = voyage.retries

\* A third wait of 60 seconds after waits of 20 and 40
C25_ThirdWait ==
    /\ voyage.pc = "embed"
    /\ voyage.waits = <<20, 40, 60>>


(***************************************************************************)
(* C27: what embed_texts returns                                           *)
(***************************************************************************)
\* embed_texts has returned normally
Returned == voyage.pc = "returned"

\* One vector per text, the i-th the embedding of the i-th text
OneVectorPerText ==
    /\ Len(voyage.all_embeddings) = Len(voyage.texts)
    /\ \A k \in 1..Len(voyage.texts) :
          voyage.all_embeddings[k] = EmbeddingOf(voyage.texts[k])

\* C27: whenever embed_texts returns normally for n texts it returns n
\* vectors, the i-th being the embedding of the i-th text, for every batch
\* size from 1, every max_retries from 0 and every pattern of rate limits.
C27_AsStated == Returned => OneVectorPerText

\* With max_retries of at least 1 a normal return has one vector per text,
\* in the order of the texts
C27_WithRetries ==
    (Returned /\ voyage.max_retries >= 1) => OneVectorPerText

\* With max_retries = 0 no batch is sent: the call returns normally with no
\* vector at all for its texts
C27_NothingEmbedded ==
    /\ Returned
    /\ voyage.max_retries = 0
    /\ Len(voyage.texts) = MaxTexts
    /\ voyage.all_embeddings = <<>>

\* Three texts in two batches, the second after a rate limit: three vectors
C27_TwoBatches ==
    /\ Returned
    /\ Len(voyage.texts) = 3
    /\ voyage.batch_size = 2
    /\ voyage.retries = 1
    /\ OneVectorPerText


(***************************************************************************)
(* C26: one embedding and three searches per search or comparison          *)
(***************************************************************************)
PerCorpus == op \in {"query", "compare"}

\* The points of a standard scoring above, or at least, the threshold of the
\* running request for its query vector
Above(standard) ==
    {id \in Sections : /\ StandardOf(id) = standard
                       /\ IndexScore(query_embedding, id) > params.score_threshold}

AtLeast(standard) ==
    {id \in Sections : /\ StandardOf(id) = standard
                       /\ IndexScore(query_embedding, id) >= params.score_threshold}

Least(a, b) == IF a < b THEN a ELSE b

\* The hits the step has appended for the standard searched
NewHits == all_results'[Len(all_results) + 1]

C26_WitnessUneven ==
    /\ Answered("query")
    /\ params.top_k_per_standard = 2
    /\ \E s, t \in StandardSet :
          /\ Len(OfStandard(QuerySources, s)) = 2
          /\ Cardinality(AtLeast(t)) = 1
          /\ Len(OfStandard(QuerySources, t)) = 1


(***************************************************************************)
(* C28: the evidence reported by generate_process and its prompt           *)
(***************************************************************************)
\* All entries of the prompt
PromptEntries == Concat([k \in 1..Len(prompt) |-> prompt[k].entries])

\* The section is in the prompt, under the heading of its standard
ShownToGenerator(chunk) ==
    \E i \in Indices(Standards) :
        /\ chunk.standard = Standards[i]
        /\ \E k \in Indices(EntriesUnder(ComparisonHeadings[i])) :
              EntriesUnder(ComparisonHeadings[i])[k].citation =
                  "Section " \o chunk.section_number \o ": " \o chunk.section_title
                  \o " (" \o ChunkPageRef(chunk) \o ")"

\* The standards that have a block in the prompt
StandardsShown ==
    {Standards[i] : i \in {k \in Indices(Standards) :
                              EntriesUnder(ComparisonHeadings[k]) # <<>>}}

\* C28: every section counted in source_sections_count and every standard
\* in standards_used of a generated process was in the prompt sent to the
\* generation provider, and the count equals the number of sections shown.
C28_AsStated ==
    Answered("process") =>
        /\ \A i \in Indices(top_chunks) : ShownToGenerator(top_chunks[i])
        /\ result.source_sections_count = Len(PromptEntries)
        /\ result.standards_used \subseteq StandardsShown

\* Every standard in standards_used has a block in the prompt, every entry
\* of the prompt is one of the counted sections, and a standard shows its
\* first five sections of the ranking, no more
C28_FivePerStandard ==
    Answered("process") =>
        /\ result.standards_used = StandardsShown
        /\ Len(PromptEntries) <= result.source_sections_count
        /\ \A i \in Indices(Standards) :
              LET mine == SelectSeq(top_chunks, LAMBDA c : c.standard = Standards[i])
              IN  /\ Len(EntriesUnder(ComparisonHeadings[i])) = Least(5, Len(mine))
                  /\ \A k \in Indices(mine) :
                        ShownToGenerator(mine[k]) <=> k <= 5

\* A process reporting 15 sections, 6 of them of PMBOK, whose prompt showed
\* 14 sections
C28_SixthSectionHidden ==
    /\ Answered("process")
    /\ result.source_sections_count = 15
    /\ Len(SelectSeq(top_chunks, LAMBDA c : c.standard = "PMBOK")) = 6
    /\ Len(PromptEntries) = 14


(***************************************************************************)
(* C29: the score attached to a surfaced section                           *)
(***************************************************************************)
\* The hits of one search hold a hit of `source`'s section with its score
ScoredBy(source, hits) ==
    \E j \in Indices(hits) :
        /\ hits[j].id \in Range(db)
        /\ Surfaces(source, hits[j])

\* The chunks that the step appends to all_chunks
Collected == SubSeq(all_chunks', Len(all_chunks) + 1, Len(all_chunks'))

\* C29: every surfaced source carries the score that the index returned for
\* its section in the search that produced it, never the 0.0 default of
\* scores.get: in query_with_citations and compare_standards against the
\* hits of the source's own standard, in generate_process against the score
\* of the section for the vector of the query just searched.
C29_ScoreIsTheIndexScore ==
    /\ [](Answered("query") =>
            \A k \in Indices(QuerySources) :
                \E i \in Indices(Standards) :
                    /\ QuerySources[k].standard = Standards[i]
                    /\ \E j \in Indices(all_results[i]) :
                          /\ all_results[i][j].id = QuerySources[k].id
                          /\ all_results[i][j].score =
                                QuerySources[k].relevance_score)
    /\ [](Answered("compare") =>
            \A i \in Indices(result.sources) :
                \A k \in Indices(result.sources[i]) :
                    ScoredBy(result.sources[i][k], all_results[i]))
    /\ [](Ranked => Range(top_chunks) \subseteq Range(all_chunks))
    /\ [][op = "process" =>
            \A k \in Indices(Collected) :
                /\ pc = "search"
                /\ Collected[k].id \in Range(db)
                /\ Collected[k].score =
                      IndexScore(query_embedding, Collected[k].id)
                /\ Collected[k].score >= ProcessThreshold]_vars

\* A finished query whose index returned an id without a row, and whose
\* sources carry two different scores
C29_Witness ==
    /\ Answered("query")
    /\ \E i \in Indices(all_results) :
          \E j \in Indices(all_results[i]) : all_results[i][j].id \notin Range(db)
    /\ \E k, l \in Indices(QuerySources) :
          QuerySources[k].relevance_score # QuerySources[l].relevance_score

\* A finished process with evidence, after a search that returned an id
\* without a row
C29_WitnessProcess ==
    /\ Answered("process")
    /\ Len(top_chunks) >= 2
    /\ top_chunks[1].score > top_chunks[2].score
    /\ Range(db) # Sections


(***************************************************************************)
(* The lazy service getters.  Every endpoint is an `async def` without an  *)
(* await around the getters, so the getter calls of a process run one      *)
(* after the other on the event loop.  A constructor returns or raises     *)
(* (missing API key, client construction failure).                         *)
(***************************************************************************)
MaxHandlers == 4

\* The services constructed by the getters called inside RAGService.__init__
Components == <<"voyage", "qdrant", "groq">>

\* The outcome of every constructor call of one handler
Outcomes == [Range(Components) -> BOOLEAN]

\* Variant: a getter that constructs the service on every call
GetAnew(s, g, ok) ==
    LET c == [s EXCEPT !.called[g] = @ + 1, !.attempted[g] = @ + 1]
    IN  IF ok
        THEN [c EXCEPT !.constructed[g] = @ + 1,
                       !.objects = @ + 1,
                       !.instance[g] = s.objects + 1,
                       !.returned[g] = @ \cup {s.objects + 1},
                       !.raised = FALSE]
        ELSE [c EXCEPT !.raised = TRUE]

\* get_voyage_service, get_qdrant_service, get_groq_service:
\*   if _service is None: _service = Service()
\*   return _service
GetService(s, g, ok) ==
    LET c == [s EXCEPT !.called[g] = @ + 1]
    IN  IF s.instance[g] # None
        THEN [c EXCEPT !.returned[g] = @ \cup {s.instance[g]},
                       !.raised = FALSE]
        ELSE IF ok
             THEN [c EXCEPT !.attempted[g] = @ + 1,
                            !.constructed[g] = @ + 1,
                            !.objects = @ + 1,
                            !.instance[g] = s.objects + 1,
                            !.returned[g] = @ \cup {s.objects + 1},
                            !.raised = FALSE]
             ELSE [c EXCEPT !.attempted[g] = @ + 1, !.raised = TRUE]

\* Getter calls one after the other, up to the first that raises
RECURSIVE GetServices(_, _, _)
GetServices(s, gs, oks) ==
    IF gs = <<>> THEN [s EXCEPT !.raised = FALSE]
    ELSE LET t == GetService(s, Head(gs), oks[Head(gs)])
         IN  IF t.raised THEN t ELSE GetServices(t, Tail(gs), oks)

\* get_rag_service; RAGService.__init__ calls the three other getters
GetRagService(s, oks) ==
    LET c == [s EXCEPT !.called["rag"] = @ + 1]
    IN  IF s.instance["rag"] # None
        THEN [c EXCEPT !.returned["rag"] = @ \cup {s.instance["rag"]},
                       !.raised = FALSE]
        ELSE LET t == GetServices([c EXCEPT !.attempted["rag"] = @ + 1],
                                  Components, oks)
             IN  IF t.raised
                 THEN t
                 ELSE [t EXCEPT !.constructed["rag"] = @ + 1,
                                !.objects = @ + 1,
                                !.instance["rag"] = t.objects + 1,
                                !.returned["rag"] = @ \cup {t.objects + 1}]

NotSingletons ==
    <<db, load, pc, op, params, query_embedding, search_queries, embedder,
      all_results, primary_chunks, additional_chunks, chunk_data, all_chunks,
      top_chunks, retries, attempts, calls, result, error, citeIn, citeOut,
      prompt, raised, voyage>>

InitGetters ==
    /\ db = <<>>
    /\ pc = "idle"
    /\ op = "none"
    /\ params = NoParams
    /\ query_embedding = NoVector
    /\ search_queries = <<>>
    /\ embedder = <<>>
    /\ all_results = <<>>
    /\ primary_chunks = <<>>
    /\ additional_chunks = <<>>
    /\ chunk_data = <<>>
    /\ all_chunks = <<>>
    /\ top_chunks = <<>>
    /\ retries = 0
    /\ attempts = 0
    /\ calls = NoCalls
    /\ result = NoResult
    /\ error = "none"
    /\ citeIn = NoSection
    /\ citeOut = NoCitations
    /\ prompt = NoPrompt
    /\ load = NoLoad
    /\ raised = NoRaised
    /\ voyage = NoEmbedTexts
    /\ singletons = NoSingletons

\* main.lifespan, startup: the three getters inside try/except; a failure is
\* logged and the application starts
Lifespan ==
    /\ singletons.pc = "startup"
    /\ \E oks \in Outcomes :
          LET t == GetServices(singletons, Components, oks)
          IN  singletons' = [t EXCEPT !.pc = "serving",
                                      !.startup_failed = t.raised,
                                      !.raised = FALSE]
    /\ UNCHANGED NotSingletons

\* routers.health.health_check: the three getters inside try/except
HealthCheck ==
    /\ singletons.pc = "serving"
    /\ singletons.handled < MaxHandlers
    /\ \E oks \in Outcomes :
          singletons' =
             [GetServices(singletons, Components, oks)
                 EXCEPT !.handled = @ + 1, !.raised = FALSE]
    /\ UNCHANGED NotSingletons

\* routers.search.semantic_search and routers.process.generate_process, up
\* to `rag_service = get_rag_service()`; an exception becomes a 500 response
RagRequest ==
    /\ singletons.pc = "serving"
    /\ singletons.handled < MaxHandlers
    /\ \E oks \in Outcomes :
          singletons' =
             [GetRagService(singletons, oks) EXCEPT !.handled = @ + 1]
    /\ UNCHANGED NotSingletons

\* routers.search.search_within_standard, up to its two getter calls
SearchWithinStandard ==
    /\ singletons.pc = "serving"
    /\ singletons.handled < MaxHandlers
    /\ \E oks \in Outcomes :
          singletons' =
             [GetServices(singletons, <<"voyage", "qdrant">>, oks)
                 EXCEPT !.handled = @ + 1]
    /\ UNCHANGED NotSingletons

NextGetters ==
    \/ Lifespan
    \/ HealthCheck
    \/ RagRequest
    \/ SearchWithinStandard

SpecGetters == InitGetters /\ [][NextGetters]_vars

(***************************************************************************)
(* C30: the lazy getters                                                   *)
(***************************************************************************)
\* The step calls the getter of g
Calls(g) == singletons'.called[g] > singletons.called[g]

\* C30: over any sequence of getter calls a service is constructed at most
\* once and every call that returns gives that one instance; a call made
\* while the singleton is unset calls the constructor, a call made while it
\* is set does not, and a constructor that raises leaves the singleton
\* unset, so that the next call constructs again.
C30_ConstructedOnceAndLazily ==
    /\ [](\A g \in ServiceNames :
            /\ singletons.constructed[g] <= 1
            /\ Cardinality(singletons.returned[g]) <= 1
            /\ singletons.returned[g] \subseteq {singletons.instance[g]} \ {None}
            /\ singletons.instance[g] = None <=> singletons.constructed[g] = 0)
    /\ [][\A g \in ServiceNames :
            /\ Calls(g) /\ singletons.instance[g] = None =>
                  singletons'.attempted[g] = singletons.attempted[g] + 1
            /\ Calls(g) /\ singletons.instance[g] # None =>
                  /\ singletons'.attempted[g] = singletons.attempted[g]
                  /\ singletons'.instance[g] = singletons.instance[g]
            /\ ~Calls(g) => singletons'.attempted[g] = singletons.attempted[g]
            /\ /\ singletons'.attempted[g] > singletons.attempted[g]
               /\ singletons'.constructed[g] = singletons.constructed[g]
               => singletons'.instance[g] = None]_vars

\* Startup failed at the generation service, a later call constructed it,
\* and calls after that returned the instance without constructing
C30_Witness ==
    /\ singletons.startup_failed
    /\ singletons.attempted["groq"] >= 2
    /\ singletons.constructed["groq"] = 1
    /\ singletons.called["groq"] > singletons.attempted["groq"]
    /\ singletons.returned["groq"] = {singletons.instance["groq"]}

\* get_rag_service raised inside RAGService.__init__ after two of its
\* components were constructed, and a later call built the RAG service
C30_WitnessRag ==
    /\ singletons.attempted["rag"] >= 2
    /\ singletons.constructed["rag"] = 1
    /\ singletons.called["rag"] > singletons.attempted["rag"]
    /\ singletons.instance["rag"] > singletons.instance["groq"]

====
